---- MODULE Spec2Model ----
(***************************************************************************)
(* PealerBeads: colour quantisation and pixel-grid editing core.           *)
(*                                                                         *)
(* Sections                                                                *)
(*   1. values: hex strings, RGB colours, palette entries, cells           *)
(*   2. colour metric and the exact nearest-colour scan (pixelation.ts)    *)
(*   3. the colour lookup table cache (pixelation.ts)                      *)
(*   4. the pixelation sampler (pixelation.ts)                             *)
(*   5. the palette reduction planner (colorOptimize, unnamed/part_000)    *)
(*   6. flood fill (pixelEditing.ts)                                       *)
(*   7. specifications                                                     *)
(*   8. properties                                                         *)
(***************************************************************************)
EXTENDS Integers, Sequences, FiniteSets, TLC

VARIABLES
    \* exact nearest-colour call
    nTarget, nPalette, nPc, nResult,
    \* lookup-table cache (module-level lets _cltPalette / _cltTable) and
    \* the palette instances alive in the program
    palettes, cltPalette, cltTable, call,
    \* cellRepresentativeColor call
    repArgs, repPc, repResult,
    \* calculatePixelGrid call
    pixArgs, pixPc, pixGrid,
    \* calculateMergePlan call: arguments, position, the locals active /
    \* mergeMap / mergeKeyMap, the MergeResult returned
    mUsage, mTarget, mPc, mState, mPlan,
    \* optimizeColors followed by a second applyColorMerge of the same plan
    oGrid, oTarget, oPc, oPlan, oOnce, oTwice,
    \* floodFill call
    \* fRef names the array returned (the argument or the copy), fKey the
    \* target key of an erase
    fArgs, fPc, fResult, fRef, fKey,
    \* paintPixel / paintCells call: arguments, the call made, position, the
    \* heap of arrays, the array returned, the rows copied (in order)
    pArgs, pOp, pPc, pHeap, pResult, pCopies,
    \* linePixels call: arguments, position, the locals x0 / y0 / err / result
    lArgs, lPc, lSt,
    \* circlePixels call: arguments, position, locals, result
    cArgs, cPc, cSt, cResult,
    \* dither call made twice: arguments, position, the image buffer, the
    \* two grids returned, the palette of the last call made in between
    dArgs, dPc, dData, dFirst, dSecond, dOther,
    \* editor store: gridDimensions, pixels, canvasMode, and the undo
    \* history's pastStates and futureStates
    sDims, sPixels, sMode, sPast, sFuture,
    \* source rectangles of calculatePixelGrid: the sizes, position, and the
    \* source pixels read for every cell
    rcArgs, rcPc, rcReads,
    \* getMergePreview and calculateMergePlan on one usage array: the ColorUsage
    \* objects alive, the array (references), the objects' values at the
    \* calls, the target, position, and the two results
    vHeap, vUsage, vBefore, vTarget, vPc, vPreview, vPlan,
    \* replaceColor / applyColorMerge / floodFill / floodFillErase call on a
    \* grid of arrays: the grid's value at the call, the call made, position,
    \* the heap of arrays, the array returned, replaceColor's count
    hArgs, hOp, hPc, hHeap, hResult, hCount,
    \* buildColorLookupTable statement by statement: position, the bucket the
    \* loop is at, the target of the fast query that called it (if any)
    bPc, bNext, bQuery,
    \* a grid edited by a sequence of calls of the pixel editing functions and
    \* applyColorMerge: the grid, the last call made
    gGrid, gLast,
    \* the store with its grids held by reference and the statistics cache:
    \* the store (pixels, pastStates and futureStates are references), the grid
    \* of every reference, _cachedColorStats, _cachedStatsPixelsRef, what the
    \* getColorStats call just made returned, whether it counted, whether pixels
    \* was the array of the call before, whether pixels is still the array of
    \* the last call, whether the last step was a getColorStats call or another
    \* handler
    tStore, tHeap, tCachedColorStats, tCachedStatsPixelsRef, tReturned, tRecounted, tSameRef, tUnchanged, tLast,
    \* the project file state of the store and the dirty tracker: the store's
    \* project fields with isDirty and showUnsavedDialog, the tracker's prev
    \* values, whether a project field was changed since the last save, load or
    \* new project, whether the subscriber ran out of stack, the last handler
    dState, dPrev, dUnsaved, dOverflow, dLast,
    \* a grid made with dithering by rePixelate or by the import dialogue: the
    \* resized buffer, palette, algorithm and strength, which handler ran, the
    \* grid it set
    xArgs, xPc, xGrid

nearestVars == <<nTarget, nPalette, nPc, nResult>>
cltVars     == <<palettes, cltPalette, cltTable, call>>
repVars     == <<repArgs, repPc, repResult>>
pixVars     == <<pixArgs, pixPc, pixGrid>>
mergeVars   == <<mUsage, mTarget, mPc, mState, mPlan>>
optVars     == <<oGrid, oTarget, oPc, oPlan, oOnce, oTwice>>
fillVars    == <<fArgs, fPc, fResult, fRef, fKey>>
paintVars   == <<pArgs, pOp, pPc, pHeap, pResult, pCopies>>
lineVars    == <<lArgs, lPc, lSt>>
circleVars  == <<cArgs, cPc, cSt, cResult>>
ditherVars  == <<dArgs, dPc, dData, dFirst, dSecond, dOther>>
storeVars   == <<sDims, sPixels, sMode, sPast, sFuture>>
rectVars    == <<rcArgs, rcPc, rcReads>>
previewVars == <<vHeap, vUsage, vBefore, vTarget, vPc, vPreview, vPlan>>
shareVars   == <<hArgs, hOp, hPc, hHeap, hResult, hCount>>
buildVars   == <<bPc, bNext, bQuery>>
cellVars    == <<gGrid, gLast>>
statsVars   == <<tStore, tHeap, tCachedColorStats, tCachedStatsPixelsRef, tReturned, tRecounted, tSameRef, tUnchanged, tLast>>
dirtyVars   == <<dState, dPrev, dUnsaved, dOverflow, dLast>>
repixVars   == <<xArgs, xPc, xGrid>>
vars        == <<nearestVars, cltVars, repVars, pixVars, mergeVars, optVars, fillVars,
                 paintVars, lineVars, circleVars, ditherVars, storeVars,
                 rectVars,
                 previewVars,
                 shareVars,
                 buildVars,
                 cellVars,
                 statsVars,
                 dirtyVars,
                 repixVars>>

----------------------------------------------------------------------------
(* 1. Values                                                               *)

\* A hex colour string "#RRGGBB" is the tuple of its six character codes:
\* 0..9 are '0'..'9', 10..15 are 'A'..'F', 16..21 are 'a'..'f'.  A string
\* the regular expression of hexToRgb rejects ("#FFF") has another length.
toUpperCase(hex) == [i \in DOMAIN hex |-> IF hex[i] >= 16 THEN hex[i] - 6 ELSE hex[i]]

HexDigit(c) == IF c >= 16 THEN c - 6 ELSE c

NoRgb == [r |-> -1, g |-> -1, b |-> -1]

\* hexToRgb: null unless six hex digits follow the optional '#'.
hexToRgb(hex) ==
    IF Len(hex) # 6 THEN NoRgb
    ELSE [r |-> 16 * HexDigit(hex[1]) + HexDigit(hex[2]),
          g |-> 16 * HexDigit(hex[3]) + HexDigit(hex[4]),
          b |-> 16 * HexDigit(hex[5]) + HexDigit(hex[6])]

Rgb(r, g, b) == [r |-> r, g |-> g, b |-> b]

H000000 == <<0, 0, 0, 0, 0, 0>>
H010101 == <<0, 1, 0, 1, 0, 1>>
H040404 == <<0, 4, 0, 4, 0, 4>>
H000400 == <<0, 0, 0, 4, 0, 0>>
H000800 == <<0, 0, 0, 8, 0, 0>>
HFF0000 == <<15, 15, 0, 0, 0, 0>>
Hff0000 == <<21, 21, 0, 0, 0, 0>>
H0000FF == <<0, 0, 0, 0, 15, 15>>
HFFFFFF == <<15, 15, 15, 15, 15, 15>>
HFFF    == <<15, 15, 15>>

\* A palette entry as buildPalette makes it: upper-case hex, parsed rgb.
Entry(key, hex) == [key |-> key, hex |-> toUpperCase(hex), rgb |-> hexToRgb(hex)]

\* The sentinel findClosestPaletteColor returns for an empty palette.
ErrEntry == [key |-> "ERR", hex |-> H000000, rgb |-> Rgb(0, 0, 0)]

----------------------------------------------------------------------------
(* 2. Colour metric and exact nearest colour                               *)

\* perceptualDistance returns sqrt(q) with
\*   q = (2 + rMean/256) dr^2 + 4 dg^2 + (2 + (255 - rMean)/256) db^2.
\* For 8-bit channels 512*q is an integer below 2^53, every intermediate
\* value is an exact double, and sqrt is strictly increasing on such values
\* (neighbouring values of q differ by 1/512, their roots by more than
\* 1e-7), so every comparison the code makes on the distance is the same
\* comparison on 512*q, which this operator returns.
perceptualDistance(a, b) ==
    LET rs == a.r + b.r
        dr == a.r - b.r
        dg == a.g - b.g
        db == a.b - b.b
    IN  (1024 + rs) * dr * dr + 2048 * dg * dg + (1534 - rs) * db * db

\* bestDist starts at Infinity.
Infinity == -1

CloserOrEqual(d, bestDist) == bestDist = Infinity \/ d <= bestDist

\* the test `d < bestDist` of the scan
Closer(d, bestDist) == bestDist = Infinity \/ d < bestDist

\* The for-loop of findClosestPaletteColor from entry i on; the result is
\* the position of `best` in the palette.
RECURSIVE ScanPalette(_, _, _, _, _)
ScanPalette(target, palette, i, best, bestDist) ==
    IF i > Len(palette) THEN best
    ELSE LET d == perceptualDistance(target, palette[i].rgb)
         IN  IF Closer(d, bestDist)
             THEN IF d = 0 THEN i
                  ELSE ScanPalette(target, palette, i + 1, i, d)
             ELSE ScanPalette(target, palette, i + 1, best, bestDist)

\* Position of the entry findClosestPaletteColor returns; 0 stands for the
\* freshly made ERR sentinel of the empty palette.
findClosestIndex(target, palette) ==
    IF Len(palette) = 0 THEN 0 ELSE ScanPalette(target, palette, 1, 1, Infinity)

EntryAt(palette, i) == IF i = 0 THEN ErrEntry ELSE palette[i]

findClosestPaletteColor(target, palette) ==
    EntryAt(palette, findClosestIndex(target, palette))

----------------------------------------------------------------------------
(* 3. Colour lookup table                                                  *)

CLT_BITS  == 5
CLT_SHIFT == 8 - CLT_BITS
CLT_SIZE  == 2 ^ CLT_BITS

\* (ci << CLT_SHIFT) | ((1 << (CLT_SHIFT - 1)) - 1): the low bits of
\* ci << CLT_SHIFT are zero, so the bitwise or is a sum.
BucketProbe(ci) == ci * (2 ^ CLT_SHIFT) + (2 ^ (CLT_SHIFT - 1) - 1)

\* c >> CLT_SHIFT
BucketOf(c) == c \div (2 ^ CLT_SHIFT)

TableIndex(ri, gi, bi) == (ri * CLT_SIZE + gi) * CLT_SIZE + bi

TargetIndex(t) == TableIndex(BucketOf(t.r), BucketOf(t.g), BucketOf(t.b))

ProbeOf(t) ==
    Rgb(BucketProbe(BucketOf(t.r)), BucketProbe(BucketOf(t.g)), BucketProbe(BucketOf(t.b)))

\* Colours queried through the fast path in this model.
FastTargets == { Rgb(0, 0, 0), Rgb(7, 7, 7), Rgb(8, 3, 3), Rgb(250, 10, 10) }

\* The table is kept for the buckets the model's colours address (those of
\* FastTargets and, for the dithered grey images, the 32 grey buckets); every
\* bucket is filled independently of the others, so this is the full
\* 32*32*32 table restricted to those indices.
ModelBuckets ==
    { TargetIndex(t) : t \in FastTargets }
       \cup { TableIndex(i, i, i) : i \in 0..(CLT_SIZE - 1) }

ProbeOfIndex(idx) ==
    Rgb(BucketProbe(idx \div (CLT_SIZE * CLT_SIZE)),
        BucketProbe((idx \div CLT_SIZE) % CLT_SIZE),
        BucketProbe(idx % CLT_SIZE))

\* The table the triple loop of buildColorLookupTable fills: for each
\* bucket the position of the exact answer for the bucket's probe colour.
FilledTable(palette) ==
    [idx \in ModelBuckets |-> findClosestIndex(ProbeOfIndex(idx), palette)]

NoPalette == "null"
NoTable   == <<>>

\* the mutation of AlreadyBuilt that recognises the cached palette by its
\* length
AlreadyBuiltByLength(cp, ct, p, pals) ==
    cp # NoPalette /\ ct # NoTable /\ Len(pals[cp]) = Len(pals[p])

\* `_cltPalette === palette && _cltTable`: identity of the palette instance
AlreadyBuilt(cp, ct, p, pals) == cp = p /\ ct # NoTable

\* buildColorLookupTable(p): the cache afterwards, and whether it rebuilt
buildColorLookupTable(cp, ct, p, pals) ==
    IF AlreadyBuilt(cp, ct, p, pals)
    THEN [palette |-> cp, table |-> ct, rebuilt |-> FALSE]
    ELSE [palette |-> p, table |-> FilledTable(pals[p]), rebuilt |-> TRUE]

NeverStale(cp, ct, p) == ct = NoTable

\* `!_cltTable || _cltPalette !== palette`
Stale(cp, ct, p) == ct = NoTable \/ cp # p

\* findClosestPaletteColorFast(target, p): the cache afterwards, whether it
\* rebuilt, and the position of the entry returned
findClosestPaletteColorFast(cp, ct, target, p, pals) ==
    LET c == IF Stale(cp, ct, p)
             THEN buildColorLookupTable(cp, ct, p, pals)
             ELSE [palette |-> cp, table |-> ct, rebuilt |-> FALSE]
    IN  [palette |-> c.palette, table |-> c.table, rebuilt |-> c.rebuilt,
         idx |-> c.table[TargetIndex(target)]]

----------------------------------------------------------------------------
(* 4. Pixelation sampler                                                   *)

\* MappedPixel.isExternal is an optional boolean: true, false or absent.
ExtTrue      == "true"
ExtFalse     == "false"
ExtUndefined == "undefined"

Cell(key, color, ext) == [key |-> key, color |-> color, isExternal |-> ext]

TRANSPARENT_KEY == "ERASE"

transparentPixel == Cell(TRANSPARENT_KEY, HFFFFFF, ExtTrue)

\* An image is [width, height, data]; data holds the RGBA pixels row-major,
\* data[y*width + x + 1] being the bytes at (y*imgW + x)*4 .. +3.
PixelAt(img, x, y) == img.data[y * img.width + x + 1]

SkippedInclusive(px) == px.a <= 128

\* `data[idx + 3] < 128`: the pixel is left out of the sample
Skipped(px) == px.a < 128

\* The coordinates the two nested loops of cellRepresentativeColor visit,
\* in their order (y outer, x inner).
RectCoords(sx, sy, w, h) ==
    [k \in 1..(w * h) |-> [x |-> sx + ((k - 1) % w), y |-> sy + ((k - 1) \div w)]]

RepStart ==
    [rSum |-> 0, gSum |-> 0, bSum |-> 0, count |-> 0,
     freqMap |-> <<>>, domRgb |-> NoRgb, maxFreq |-> 0]

ReachesOrPasses(f, maxFreq) == f >= maxFreq

\* `freqMap[k] > maxFreq`
Passes(f, maxFreq) == f > maxFreq

\* One pass of the loop body on pixel px.
RepStep(st, px, mode) ==
    IF Skipped(px) THEN st
    ELSE IF mode = "average"
    THEN [st EXCEPT !.count = @ + 1, !.rSum = @ + px.r, !.gSum = @ + px.g,
                    !.bSum = @ + px.b]
    ELSE LET k == Rgb(px.r, px.g, px.b)
             f == (IF k \in DOMAIN st.freqMap THEN st.freqMap[k] ELSE 0) + 1
             fm == [c \in DOMAIN st.freqMap \cup {k} |->
                        IF c = k THEN f ELSE st.freqMap[c]]
         IN  IF Passes(f, st.maxFreq)
             THEN [st EXCEPT !.count = @ + 1, !.freqMap = fm, !.maxFreq = f,
                             !.domRgb = k]
             ELSE [st EXCEPT !.count = @ + 1, !.freqMap = fm]

RECURSIVE RepScan(_, _, _, _, _)
RepScan(img, coords, k, st, mode) ==
    IF k > Len(coords) THEN st
    ELSE RepScan(img, coords, k + 1,
                 RepStep(st, PixelAt(img, coords[k].x, coords[k].y), mode), mode)

\* Math.round of the non-negative quotient a/b (exact on doubles for the
\* byte sums and pixel counts that occur).
RoundDiv(a, b) == (2 * a + b) \div (2 * b)

\* cellRepresentativeColor; NoRgb stands for null.
cellRepresentativeColor(img, sx, sy, w, h, mode) ==
    LET st == RepScan(img, RectCoords(sx, sy, w, h), 1, RepStart, mode)
    IN  IF st.count = 0 THEN NoRgb
        ELSE IF mode = "average"
        THEN Rgb(RoundDiv(st.rSum, st.count), RoundDiv(st.gSum, st.count),
                 RoundDiv(st.bSum, st.count))
        ELSE st.domRgb

Max(a, b) == IF a >= b THEN a ELSE b
Min(a, b) == IF a <= b THEN a ELSE b

\* The start rounded up instead of down.
SpanStartCeil(i, len, n) == (i * len + n - 1) \div n

\* Math.floor(i * cellW) and Math.ceil((i + 1) * cellW) with cellW = len/n a
\* double.  For len, n <= 12 the double results equal the exact quotients
\* (checked exhaustively), so the integer forms below are what the code
\* computes within the bounds used here.
SpanStart(i, len, n) == (i * len) \div n
SpanEnd(i, len, n)   == Min(len, ((i + 1) * len + n - 1) \div n)

\* sx, sy, w, h of grid cell (column i, row j), both from 0
CellRect(imgWidth, imgHeight, N, M, i, j) ==
    LET sx == SpanStart(i, imgWidth, N)
        sy == SpanStart(j, imgHeight, M)
    IN  [sx |-> sx, sy |-> sy,
         w |-> Max(1, SpanEnd(i, imgWidth, N) - sx),
         h |-> Max(1, SpanEnd(j, imgHeight, M) - sy)]

\* The double loop of calculatePixelGrid from cell number k (= j*N + i) on.
\* The fast nearest-colour query of each cell reads and updates the cache.
RECURSIVE PixelLoop(_, _, _, _, _)
PixelLoop(a, k, grid, cache, pals) ==
    IF k >= a.N * a.M THEN [grid |-> grid, cache |-> cache]
    ELSE LET i == k % a.N
             j == k \div a.N
             rc == CellRect(a.img.width, a.img.height, a.N, a.M, i, j)
             rgb == cellRepresentativeColor(a.img, rc.sx, rc.sy, rc.w, rc.h, a.mode)
         IN  IF rgb # NoRgb
             THEN LET f == findClosestPaletteColorFast(cache.palette, cache.table,
                                                       rgb, a.palette, pals)
                      closest == EntryAt(pals[a.palette], f.idx)
                  IN  PixelLoop(a, k + 1,
                                [grid EXCEPT ![j + 1][i + 1] =
                                    Cell(closest.key, closest.hex, ExtUndefined)],
                                [palette |-> f.palette, table |-> f.table], pals)
             ELSE PixelLoop(a, k + 1,
                            [grid EXCEPT ![j + 1][i + 1] = transparentPixel],
                            cache, pals)

\* calculatePixelGrid(imageData, imgWidth, imgHeight, N, M, palette, mode,
\* fallbackColor): the grid returned and the cache left behind.
calculatePixelGrid(a, cache, pals) ==
    PixelLoop(a, 0,
              [j \in 1..a.M |-> [i \in 1..a.N |->
                  Cell(a.fallback.key, a.fallback.hex, ExtUndefined)]],
              cache, pals)

----------------------------------------------------------------------------
(* 5. Palette reduction planner                                            *)

Usage(hex, key, rgb, count) == [hex |-> hex, key |-> key, rgb |-> rgb, count |-> count]

\* `!cell || cell.isExternal || cell.key === TRANSPARENT_KEY`
NotABead(cell) == cell.isExternal = ExtTrue \/ cell.key = TRANSPARENT_KEY

\* The Map of collectColorUsage is the sequence of its values in insertion
\* order; this is the loop body for one cell.
CollectCell(usage, cell) ==
    IF NotABead(cell) THEN usage
    ELSE LET hex == toUpperCase(cell.color)
         IN  IF \E k \in 1..Len(usage) : usage[k].hex = hex
             THEN [k \in 1..Len(usage) |->
                      IF usage[k].hex = hex
                      THEN [usage[k] EXCEPT !.count = @ + 1]
                      ELSE usage[k]]
             ELSE IF hexToRgb(hex) # NoRgb
                  THEN Append(usage, Usage(hex, cell.key, hexToRgb(hex), 1))
                  ELSE usage

\* the cells of a grid in the order of the two nested for-of loops
RECURSIVE Flatten(_)
Flatten(pixels) ==
    IF pixels = <<>> THEN <<>> ELSE Head(pixels) \o Flatten(Tail(pixels))

RECURSIVE CollectFrom(_, _, _)
CollectFrom(cells, k, usage) ==
    IF k > Len(cells) THEN usage
    ELSE CollectFrom(cells, k + 1, CollectCell(usage, cells[k]))

collectColorUsage(pixels) == CollectFrom(Flatten(pixels), 1, <<>>)

\* The pair scan of one while-iteration from pair (i, j) on, positions
\* from 1; mergeA and mergeB start at the first two positions.
RECURSIVE PairScan(_, _, _, _, _, _)
PairScan(active, i, j, minDist, mergeA, mergeB) ==
    IF i > Len(active) THEN [a |-> mergeA, b |-> mergeB, dist |-> minDist]
    ELSE IF j > Len(active) THEN PairScan(active, i + 1, i + 2, minDist, mergeA, mergeB)
    ELSE LET d == perceptualDistance(active[i].rgb, active[j].rgb)
         IN  IF Closer(d, minDist)
             THEN PairScan(active, i, j + 1, d, i, j)
             ELSE PairScan(active, i, j + 1, minDist, mergeA, mergeB)

ClosestPair(active) == PairScan(active, 1, 2, Infinity, 1, 2)

FirstSurvivesOnlyIfMore(ca, cb) == ca > cb

\* `active[mergeA].count >= active[mergeB].count`: mergeA survives
FirstSurvives(ca, cb) == ca >= cb

KeepChains(map, mergeMap, victimHex, to) == map

\* the for-of loop over mergeMap.entries(): every entry whose target is
\* the victim's hex is set to `to` (the survivor's hex, resp. key, for the
\* entry of the same old hex in mergeMap, resp. mergeKeyMap)
Repoint(map, mergeMap, victimHex, to) ==
    [h \in DOMAIN map |-> IF mergeMap[h] = victimHex THEN to ELSE map[h]]

SetEntry(map, h, v) == [x \in DOMAIN map \cup {h} |-> IF x = h THEN v ELSE map[x]]

\* array.splice(k, 1), positions from 1
RemoveAt(seq, k) == [n \in 1..(Len(seq) - 1) |-> IF n < k THEN seq[n] ELSE seq[n + 1]]

\* One iteration of the while loop of calculateMergePlan.  With fewer than
\* two active colours active[mergeB] is undefined and reading its count
\* raises a TypeError.
MergeIteration(st) ==
    IF Len(st.active) < 2
    THEN [st EXCEPT !.threw = TRUE]
    ELSE LET pr == ClosestPair(st.active)
             aFirst == FirstSurvives(st.active[pr.a].count, st.active[pr.b].count)
             survivor == IF aFirst THEN pr.a ELSE pr.b
             victim == IF aFirst THEN pr.b ELSE pr.a
             sv == st.active[survivor]
             vc == st.active[victim]
             mm == SetEntry(st.mergeMap, vc.hex, sv.hex)
             mk == SetEntry(st.mergeKeyMap, vc.hex, sv.key)
         IN  [threw |-> FALSE,
              mergeMap |-> Repoint(mm, mm, vc.hex, sv.hex),
              mergeKeyMap |-> Repoint(mk, mm, vc.hex, sv.key),
              active |-> RemoveAt([st.active EXCEPT ![survivor].count = @ + vc.count],
                                  victim),
              last |-> [a |-> pr.a, b |-> pr.b, survivor |-> survivor,
                        victim |-> victim, before |-> st.active]]

NoMerge == [a |-> 0, b |-> 0, survivor |-> 0, victim |-> 0, before |-> <<>>]

\* the state at the head of the while loop on its first arrival
PlanStart(usage) ==
    [threw |-> FALSE, mergeMap |-> <<>>, mergeKeyMap |-> <<>>, active |-> usage,
     last |-> NoMerge]

MergeResult(mergeMap, mergeKeyMap, before, after) ==
    [mergeMap |-> mergeMap, mergeKeyMap |-> mergeKeyMap,
     mergedCount |-> Cardinality(DOMAIN mergeMap),
     colorsBefore |-> before, colorsAfter |-> after]

RECURSIVE PlanLoop(_, _)
PlanLoop(st, targetCount) ==
    IF st.threw \/ Len(st.active) <= targetCount THEN st
    ELSE PlanLoop(MergeIteration(st), targetCount)

\* calculateMergePlan(usage, targetCount): [threw |-> TRUE] when the call
\* raises, else the MergeResult
calculateMergePlan(usage, targetCount) ==
    IF Len(usage) <= targetCount
    THEN [threw |-> FALSE, plan |-> MergeResult(<<>>, <<>>, Len(usage), Len(usage))]
    ELSE LET st == PlanLoop(PlanStart(usage), targetCount)
         IN  IF st.threw THEN [threw |-> TRUE, plan |-> <<>>]
             ELSE [threw |-> FALSE,
                   plan |-> MergeResult(st.mergeMap, st.mergeKeyMap,
                                        Len(usage), Len(st.active))]

\* ---- the planner's working set as objects ----
\* heap is the sequence of the ColorUsage objects alive, an array is the
\* sequence of its elements' positions in heap.

Deref(heap, ids) == [k \in 1..Len(ids) |-> heap[ids[k]]]

\* The working set is the input array itself.
Aliased(heap, usage) == [heap |-> heap, ids |-> usage]

\* `usage.map((u) => ({ ...u }))`: one new object per element
Cloned(heap, usage) ==
    [heap |-> heap \o Deref(heap, usage),
     ids |-> [k \in 1..Len(usage) |-> Len(heap) + k]]

MergePreviewItem(victim, survivor, distance) ==
    [fromHex |-> victim.hex, fromKey |-> victim.key, fromCount |-> victim.count,
     toHex |-> survivor.hex, toKey |-> survivor.key, distance |-> distance]

\* One iteration of the while loop of getMergePreview; like the planner's
\* it raises a TypeError on a working set of fewer than two colours.
PreviewIteration(st) ==
    IF Len(st.ids) < 2
    THEN [st EXCEPT !.threw = TRUE]
    ELSE LET active == Deref(st.heap, st.ids)
             pr == ClosestPair(active)
             aFirst == FirstSurvives(active[pr.a].count, active[pr.b].count)
             survivor == IF aFirst THEN pr.a ELSE pr.b
             victim == IF aFirst THEN pr.b ELSE pr.a
         IN  [threw |-> FALSE,
              previews |-> Append(st.previews,
                                  MergePreviewItem(active[victim], active[survivor], pr.dist)),
              heap |-> [st.heap EXCEPT ![st.ids[survivor]].count =
                                          @ + active[victim].count],
              ids |-> RemoveAt(st.ids, victim)]

RECURSIVE PreviewLoop(_, _)
PreviewLoop(st, targetCount) ==
    IF st.threw \/ Len(st.ids) <= targetCount THEN st
    ELSE PreviewLoop(PreviewIteration(st), targetCount)

\* getMergePreview(usage, targetCount): the previews returned (or threw)
\* and the objects it leaves behind
getMergePreview(heap, usage, targetCount) ==
    IF Len(usage) <= targetCount
    THEN [threw |-> FALSE, previews |-> <<>>, heap |-> heap]
    ELSE LET w == Cloned(heap, usage)
             st == PreviewLoop([threw |-> FALSE, previews |-> <<>>,
                                heap |-> w.heap, ids |-> w.ids], targetCount)
         IN  [threw |-> st.threw,
              previews |-> IF st.threw THEN <<>> ELSE st.previews,
              heap |-> st.heap]

\* One iteration of the while loop of calculateMergePlan on the objects:
\* MergeIteration on their values, the count written to the survivor's
\* object, and the merge appended to the list of merges performed.
PlanIterationOn(h) ==
    LET nx == MergeIteration(h.st)
    IN  IF nx.threw THEN [h EXCEPT !.st = nx]
        ELSE [heap |-> [h.heap EXCEPT ![h.ids[nx.last.survivor]].count =
                                        @ + h.st.active[nx.last.victim].count],
              ids |-> RemoveAt(h.ids, nx.last.victim),
              st |-> nx,
              merges |-> Append(h.merges, nx.last)]

RECURSIVE PlanLoopOn(_, _)
PlanLoopOn(h, targetCount) ==
    IF h.st.threw \/ Len(h.ids) <= targetCount THEN h
    ELSE PlanLoopOn(PlanIterationOn(h), targetCount)

\* calculateMergePlan(usage, targetCount) on the objects: the MergeResult
\* (or threw), the merges performed in order, the objects left behind
PlanOn(heap, usage, targetCount) ==
    IF Len(usage) <= targetCount
    THEN [threw |-> FALSE, merges |-> <<>>, heap |-> heap,
          plan |-> MergeResult(<<>>, <<>>, Len(usage), Len(usage))]
    ELSE LET w == Cloned(heap, usage)
             h == PlanLoopOn([heap |-> w.heap, ids |-> w.ids,
                              st |-> PlanStart(Deref(w.heap, w.ids)),
                              merges |-> <<>>], targetCount)
         IN  [threw |-> h.st.threw, merges |-> h.merges, heap |-> h.heap,
              plan |-> IF h.st.threw THEN <<>>
                       ELSE MergeResult(h.st.mergeMap, h.st.mergeKeyMap,
                                        Len(usage), Len(h.ids))]

\* The rewrite that marks the merged cell external.
MergeCellExternal(cell, mergeMap, mergeKeyMap) ==
    IF NotABead(cell) \/ toUpperCase(cell.color) \notin DOMAIN mergeMap THEN cell
    ELSE Cell(mergeKeyMap[toUpperCase(cell.color)], mergeMap[toUpperCase(cell.color)], ExtTrue)

\* the loop body of applyColorMerge for one cell
MergeCell(cell, mergeMap, mergeKeyMap) ==
    IF NotABead(cell) THEN cell
    ELSE LET hex == toUpperCase(cell.color)
         IN  IF hex \in DOMAIN mergeMap
             THEN Cell(IF hex \in DOMAIN mergeKeyMap THEN mergeKeyMap[hex] ELSE cell.key,
                       mergeMap[hex], ExtFalse)
             ELSE cell

\* applyColorMerge(pixels, mergeMap, mergeKeyMap), by value
applyColorMerge(pixels, mergeMap, mergeKeyMap) ==
    IF Cardinality(DOMAIN mergeMap) = 0 THEN pixels
    ELSE [j \in 1..Len(pixels) |->
             [i \in 1..Len(pixels[j]) |-> MergeCell(pixels[j][i], mergeMap, mergeKeyMap)]]

----------------------------------------------------------------------------
(* 6. Flood fill                                                           *)

\* x ?? false on an optional boolean
OrFalse(ext) == IF ext = ExtUndefined THEN ExtFalse ELSE ext

\* the undefined that pixels[row]?.[col] gives outside the grid
NoCell == Cell("undefined", <<>>, ExtUndefined)

\* pixels[row]?.[col] with row, col from 0
CellAt(pixels, row, col) ==
    IF row + 1 \in DOMAIN pixels /\ col + 1 \in DOMAIN pixels[row + 1]
    THEN pixels[row + 1][col + 1]
    ELSE NoCell

\* the mutation of MatchesTarget that forgets the external flag
MatchesColourOnly(cell, targetColor, targetExternal) ==
    cell.color = targetColor

\* negation of the test   cell.color !== targetColor ||
\*                        (cell.isExternal ?? false) !== targetExternal
MatchesTarget(cell, targetColor, targetExternal) ==
    cell.color = targetColor /\ OrFalse(cell.isExternal) = targetExternal

\* the mutation of SameAsTarget that compares the flag as written
SameAsTargetRawFlag(fillValue, targetColor, targetExternal) ==
    fillValue.color = targetColor /\ fillValue.isExternal = targetExternal

\* the early return when the fill value is the target already
SameAsTarget(fillValue, targetColor, targetExternal) ==
    fillValue.color = targetColor /\ OrFalse(fillValue.isExternal) = targetExternal

Pos(row, col) == [row |-> row, col |-> col]

\* the while (stack.length) loop: pop from the end, skip, or write the fill
\* value and push the four neighbours (up, down, left, right)
RECURSIVE FillLoop(_, _, _, _, _, _, _, _)
FillLoop(next, visited, stack, N, M, targetColor, targetExternal, fillValue) ==
    IF stack = <<>> THEN next
    ELSE LET top == stack[Len(stack)]
             rest == SubSeq(stack, 1, Len(stack) - 1)
             row == top.row
             col == top.col
         IN  IF row < 0 \/ row >= M \/ col < 0 \/ col >= N \/ top \in visited
             THEN FillLoop(next, visited, rest, N, M, targetColor, targetExternal,
                           fillValue)
             ELSE IF ~MatchesTarget(next[row + 1][col + 1], targetColor, targetExternal)
             THEN FillLoop(next, visited, rest, N, M, targetColor, targetExternal,
                           fillValue)
             ELSE FillLoop([next EXCEPT ![row + 1][col + 1] = fillValue],
                           visited \cup {top},
                           rest \o << Pos(row - 1, col), Pos(row + 1, col),
                                      Pos(row, col - 1), Pos(row, col + 1) >>,
                           N, M, targetColor, targetExternal, fillValue)

\* floodFill(pixels, dims, startRow, startCol, fillValue)
floodFill(pixels, N, M, startRow, startCol, fillValue) ==
    LET startCell == CellAt(pixels, startRow, startCol)
    IN  IF startCell = NoCell THEN pixels
        ELSE LET targetColor == startCell.color
                 targetExternal == OrFalse(startCell.isExternal)
             IN  IF SameAsTarget(fillValue, targetColor, targetExternal)
                 THEN pixels
                 ELSE FillLoop(pixels, {}, << Pos(startRow, startCol) >>, N, M,
                               targetColor, targetExternal, fillValue)

\* which array floodFill returns: its argument `pixels` or the copy `next`
floodFillReturns(pixels, startRow, startCol, fillValue) ==
    LET startCell == CellAt(pixels, startRow, startCol)
    IN  IF startCell = NoCell THEN "pixels"
        ELSE IF SameAsTarget(fillValue, startCell.color, OrFalse(startCell.isExternal))
        THEN "pixels"
        ELSE "next"

\* the mutation of EraseMatches that enters external cells
EraseMatchesKeyOnly(cell, targetKey) == cell.key = targetKey

\* negation of the test   !cell || cell.isExternal || cell.key !== targetKey
EraseMatches(cell, targetKey) == cell.isExternal # ExtTrue /\ cell.key = targetKey

\* the while (stack.length) loop of floodFillErase
RECURSIVE EraseLoop(_, _, _, _, _, _)
EraseLoop(next, visited, stack, N, M, targetKey) ==
    IF stack = <<>> THEN next
    ELSE LET top == stack[Len(stack)]
             rest == SubSeq(stack, 1, Len(stack) - 1)
             row == top.row
             col == top.col
         IN  IF row < 0 \/ row >= M \/ col < 0 \/ col >= N \/ top \in visited
             THEN EraseLoop(next, visited, rest, N, M, targetKey)
             ELSE IF ~EraseMatches(next[row + 1][col + 1], targetKey)
             THEN EraseLoop(next, visited, rest, N, M, targetKey)
             ELSE EraseLoop([next EXCEPT ![row + 1][col + 1] = transparentPixel],
                            visited \cup {top},
                            rest \o << Pos(row - 1, col), Pos(row + 1, col),
                                       Pos(row, col - 1), Pos(row, col + 1) >>,
                            N, M, targetKey)

\* floodFillErase(pixels, dims, startRow, startCol, targetKey); the array
\* returned is always the copy `next`
floodFillErase(pixels, N, M, startRow, startCol, targetKey) ==
    EraseLoop(pixels, {}, << Pos(startRow, startCol) >>, N, M, targetKey)

\* ---- painting with structural sharing ----
\* Arrays are objects of a heap, a function from array ids (1, 2, ...) to
\* sequences: an outer array holds the ids of its rows, a row array holds
\* cells.  Cell objects are never assigned to by the functions modelled, so
\* a cell is its value.

NullGrid == 0

NewId(heap) == Cardinality(DOMAIN heap) + 1

Store(heap, id, seq) == [x \in DOMAIN heap \cup {id} |-> IF x = id THEN seq ELSE heap[x]]

\* the value of the grid whose outer array is `id`
GridOf(heap, id) == [r \in 1..Len(heap[id]) |-> heap[heap[id][r]]]

\* grid[row]?.[col] for the outer array `id`, row and col from 0
HeapCellAt(heap, id, row, col) ==
    IF row + 1 \in DOMAIN heap[id] /\ col + 1 \in DOMAIN heap[heap[id][row + 1]]
    THEN heap[heap[id][row + 1]][col + 1]
    ELSE NoCell

\* the mutation of SamePixel that reads an absent flag as false
SamePixelOrFalse(cell, value) ==
    /\ cell.key = value.key
    /\ cell.color = value.color
    /\ OrFalse(cell.isExternal) = OrFalse(value.isExternal)

\* cell.key === value.key && cell.color === value.color &&
\* cell.isExternal === value.isExternal
SamePixel(cell, value) ==
    /\ cell.key = value.key
    /\ cell.color = value.color
    /\ cell.isExternal = value.isExternal

\* paintPixel(pixels, row, col, value): the heap after the call, the array
\* returned (NullGrid for null) and the rows copied
paintPixel(heap, pixels, row, col, value) ==
    LET cell == HeapCellAt(heap, pixels, row, col)
    IN  IF cell = NoCell \/ SamePixel(cell, value)
        THEN [heap |-> heap, result |-> NullGrid, copies |-> <<>>]
        ELSE LET next == NewId(heap)
                 h1 == Store(heap, next, heap[pixels])
                 rowCopy == NewId(h1)
                 h2 == Store(h1, rowCopy, h1[h1[pixels][row + 1]])
                 h3 == Store(h2, next, [h2[next] EXCEPT ![row + 1] = rowCopy])
                 h4 == Store(h3, rowCopy, [h3[rowCopy] EXCEPT ![col + 1] = value])
             IN  [heap |-> h4, result |-> next, copies |-> << row >>]

\* the mutation of AlreadyPainted that compares the external flag too
AlreadyPaintedWithFlag(existing, value) ==
    existing # NoCell /\ SamePixel(existing, value)

\* existing && existing.key === value.key && existing.color === value.color
AlreadyPainted(existing, value) ==
    existing # NoCell /\ existing.key = value.key /\ existing.color = value.color

\* the mutation of RowNeedsCopy that copies the row on every write
RowAlwaysCopied(row, rowsCopied) == TRUE

\* !rowsCopied.has(row)
RowNeedsCopy(row, rowsCopied) == row \notin rowsCopied

\* the locals of paintCells before the loop
PaintStart(heap, pixels) ==
    [heap |-> heap, next |-> pixels, copied |-> FALSE, rowsCopied |-> {},
     copies |-> <<>>]

\* the body of the for-of loop of paintCells for one candidate
PaintStep(st, pixels, N, M, cand, value) ==
    LET row == cand.row
        col == cand.col
    IN  IF row < 0 \/ row >= M \/ col < 0 \/ col >= N THEN st
        ELSE IF AlreadyPainted(HeapCellAt(st.heap, IF st.copied THEN st.next ELSE pixels,
                                          row, col), value)
        THEN st
        ELSE LET next == IF st.copied THEN st.next ELSE NewId(st.heap)
                 h1 == IF st.copied THEN st.heap
                       ELSE Store(st.heap, next, st.heap[pixels])
                 fresh == RowNeedsCopy(row, st.rowsCopied)
                 rowId == IF fresh THEN NewId(h1) ELSE h1[next][row + 1]
                 h2 == IF fresh THEN Store(h1, rowId, h1[h1[next][row + 1]]) ELSE h1
                 h3 == Store(h2, next, [h2[next] EXCEPT ![row + 1] = rowId])
                 h4 == Store(h3, rowId, [h3[rowId] EXCEPT ![col + 1] = value])
             IN  [heap |-> h4, next |-> next, copied |-> TRUE,
                  rowsCopied |-> st.rowsCopied \cup {row},
                  copies |-> IF fresh THEN Append(st.copies, row) ELSE st.copies]

RECURSIVE PaintLoop(_, _, _, _, _, _, _)
PaintLoop(st, pixels, N, M, cells, k, value) ==
    IF k > Len(cells) THEN st
    ELSE PaintLoop(PaintStep(st, pixels, N, M, cells[k], value), pixels, N, M,
                   cells, k + 1, value)

\* paintCells(pixels, dims, cells, value)
paintCells(heap, pixels, N, M, cells, value) ==
    LET st == PaintLoop(PaintStart(heap, pixels), pixels, N, M, cells, 1, value)
    IN  [heap |-> st.heap, result |-> st.next, copies |-> st.copies]

\* ---- shapes ----

Abs(a) == IF a < 0 THEN -a ELSE a

\* x0 < x1 ? 1 : -1
StepSign(a, b) == IF a < b THEN 1 ELSE -1

\* the mutation of MovesX that drops the sign of dy
MovesXSignDropped(e2, dy) == e2 > dy

\* e2 > -dy
MovesX(e2, dy) == e2 > -dy

\* e2 < dx
MovesY(e2, dx) == e2 < dx

\* the locals of linePixels before the loop
LineStart(c0, r0, c1, r1) ==
    [x0 |-> c0, y0 |-> r0, err |-> Abs(c1 - c0) - Abs(r1 - r0), result |-> <<>>,
     broke |-> FALSE]

\* one pass of the while (true) loop of linePixels
LineIteration(st, c0, r0, c1, r1) ==
    LET dx == Abs(c1 - c0)
        dy == Abs(r1 - r0)
        sx == StepSign(c0, c1)
        sy == StepSign(r0, r1)
        result == Append(st.result, Pos(st.y0, st.x0))
    IN  IF st.x0 = c1 /\ st.y0 = r1
        THEN [st EXCEPT !.result = result, !.broke = TRUE]
        ELSE LET e2 == 2 * st.err
                 mx == MovesX(e2, dy)
                 my == MovesY(e2, dx)
             IN  [x0 |-> IF mx THEN st.x0 + sx ELSE st.x0,
                  y0 |-> IF my THEN st.y0 + sy ELSE st.y0,
                  err |-> st.err - (IF mx THEN dy ELSE 0) + (IF my THEN dx ELSE 0),
                  result |-> result,
                  broke |-> FALSE]

\* the mutation of Add without the seen-set
AddAlways(st, col, row) ==
    [result |-> Append(st.result, Pos(row, col)), seen |-> st.seen \cup {Pos(row, col)}]

\* the closure `add` of circlePixels on the pair (result, seen); the key
\* `${col},${row}` of the seen-set stands for the pair itself
Add(st, col, row) ==
    IF Pos(row, col) \in st.seen THEN st
    ELSE [result |-> Append(st.result, Pos(row, col)),
          seen |-> st.seen \cup {Pos(row, col)}]

NoCells == [result |-> <<>>, seen |-> {}]

\* the inner loop of the filled branch: c from its current value to radius
RECURSIVE FilledRow(_, _, _, _, _, _)
FilledRow(st, cx, cy, radius, r, c) ==
    IF c > radius THEN st
    ELSE IF c * c + r * r <= radius * radius
    THEN FilledRow(Add(st, cx + c, cy + r), cx, cy, radius, r, c + 1)
    ELSE FilledRow(st, cx, cy, radius, r, c + 1)

\* plotOctants(px, py)
plotOctants(st, cx, cy, px, py) ==
    Add(Add(Add(Add(Add(Add(Add(Add(st, cx + px, cy + py), cx - px, cy + py),
        cx + px, cy - py), cx - px, cy - py), cx + py, cy + px), cx - py, cy + px),
        cx + py, cy - px), cx - py, cy - px)

\* one pass of the while (x > y) loop of the midpoint algorithm on the
\* locals x, y, d and (result, seen)
MidpointIteration(loc, cx, cy) ==
    LET y1 == loc.y + 1
        x1 == IF loc.d <= 0 THEN loc.x ELSE loc.x - 1
        d1 == IF loc.d <= 0 THEN loc.d + 2 * y1 + 1 ELSE loc.d + 2 * (y1 - x1) + 1
    IN  [loc EXCEPT !.x = x1, !.y = y1, !.d = d1,
                    !.cells = plotOctants(loc.cells, cx, cy, x1, y1)]

----------------------------------------------------------------------------
(* Dithering                                                              *)

\* Largest number of pixels of a dithered image.
MaxDither == 4

\* strength is k / StrengthDen for the integer k of the model
StrengthDen == 2

\* The error buffers hold exact multiples of 1 / ErrScale: every deposit
\* divides an error by 16 * StrengthDen, and an error crosses fewer cells
\* than the image has.  Up to 4 cells these values are exact in a
\* Float32Array as well.
ErrScale == (16 * StrengthDen) ^ (MaxDither - 1)

ZeroErr == [r |-> 0, g |-> 0, b |-> 0]

\* new Float32Array(rowBytes): one slot per pixel and channel
NewErrRow(width) == [x \in 1..width |-> ZeroErr]

\* the mutation of ClearedRow that keeps what the buffer held two rows ago
KeptRow(row) == row

\* nextErr.fill(0)
ClearedRow(row) == [x \in DOMAIN row |-> ZeroErr]

\* Math.round of v / ErrScale: the nearest integer, halves upwards
MathRound(v) == (2 * v + ErrScale) \div (2 * ErrScale)

\* Math.max(0, Math.min(255, c))
Clamp255(c) == Max(0, Min(255, c))

\* err * strength * (w / 16), in units of 1 / ErrScale
Share(e, k, w) == (e \div (16 * StrengthDen)) * k * w

\* buf[nx] += errR * (w / 16), and the same for the g and b slots
Deposit(buf, x, e, k, w) ==
    [buf EXCEPT ![x] = [r |-> @.r + Share(e.r, k, w),
                        g |-> @.g + Share(e.g, k, w),
                        b |-> @.b + Share(e.b, k, w)]]

NoEntry == [key |-> "undefined", hex |-> <<>>, rgb |-> NoRgb]

\* Array.from({length: height}, () => Array.from({length: width}, () => palette[0]))
FirstEntryGrid(width, height, palette) ==
    [y \in 1..height |-> [x \in 1..width |->
        IF Len(palette) = 0 THEN NoEntry ELSE palette[1]]]

\* data[idx] + currErr[ex], and the same for the g and b slots
FsOld(px, err) ==
    [r |-> px.r * ErrScale + err.r,
     g |-> px.g * ErrScale + err.g,
     b |-> px.b * ErrScale + err.b]

\* the colour handed to findClosestPaletteColorFast
FsTarget(old) ==
    Rgb(Clamp255(MathRound(old.r)), Clamp255(MathRound(old.g)),
        Clamp255(MathRound(old.b)))

\* old - closest.rgb; the factor strength is applied in Share
FsError(old, rgb) ==
    [r |-> old.r - rgb.r * ErrScale,
     g |-> old.g - rgb.g * ErrScale,
     b |-> old.b - rgb.b * ErrScale]

DepositIf(cond, buf, x, e, k, w) == IF cond THEN Deposit(buf, x, e, k, w) ELSE buf

\* The four guarded deposits of the quantization error e of pixel (x, y):
\* 7/16 into currErr at x+1, 3/16, 5/16 and 1/16 into nextErr at x-1, x, x+1.
FsDiffuse(a, st, x, y, e) ==
    [st EXCEPT
        !.curr = DepositIf(x + 1 < a.img.width, @, x + 2, e, a.strength, 7),
        !.next = DepositIf(y + 1 < a.img.height /\ x + 1 < a.img.width,
                     DepositIf(y + 1 < a.img.height,
                         DepositIf(y + 1 < a.img.height /\ x > 0,
                                   @, x, e, a.strength, 3),
                         x + 1, e, a.strength, 5),
                     x + 2, e, a.strength, 1)]

\* result[y][x] = closest and the distribution of the error, for the
\* answer f of the lookup
FsEmit(a, st, x, y, old, f, pals) ==
    FsDiffuse(a,
              [st EXCEPT !.result[y + 1][x + 1] = EntryAt(pals[a.palette], f.idx),
                         !.cache = [palette |-> f.palette, table |-> f.table]],
              x, y, FsError(old, EntryAt(pals[a.palette], f.idx).rgb))

FsQuantise(a, st, x, y, old, pals) ==
    FsEmit(a, st, x, y, old,
           findClosestPaletteColorFast(st.cache.palette, st.cache.table,
                                       FsTarget(old), a.palette, pals),
           pals)

\* The body of the inner loop of floydSteinbergDither for the pixel (x, y);
\* st holds the locals currErr / nextErr / result and the lookup cache.
FsPixel(a, st, x, y, pals) ==
    IF a.img.data[y * a.img.width + x + 1].a < 128 THEN st
    ELSE FsQuantise(a, st, x, y,
                    FsOld(a.img.data[y * a.img.width + x + 1], st.curr[x + 1]), pals)

FsRowStart(st, x) == IF x = 0 THEN [st EXCEPT !.next = ClearedRow(@)] ELSE st

FsRowEnd(st, x, width) ==
    IF x = width - 1 THEN [st EXCEPT !.curr = st.next, !.next = st.curr] ELSE st

\* The two loops of floydSteinbergDither from pixel number n (= y*width + x)
\* on: the next-row buffer is cleared before the first pixel of a row and
\* the buffers are swapped after its last pixel.  The locals are bound to
\* their values once per pixel (s, s1 and s2 range over one-element sets).
RECURSIVE FsLoop(_, _, _, _)
FsLoop(a, st, n, pals) ==
    IF n >= a.img.width * a.img.height THEN st
    ELSE FsLoop(a,
                CHOOSE s3 \in
                    { FsRowEnd(s2, n % a.img.width, a.img.width) :
                        s2 \in { FsPixel(a, s1, n % a.img.width, n \div a.img.width, pals) :
                            s1 \in { FsRowStart(s, n % a.img.width) : s \in {st} } } } :
                    TRUE,
                n + 1, pals)

DitherReturn(a, st) == [grid |-> st.result, cache |-> st.cache, data |-> a.img.data]

\* floydSteinbergDither(imageData, width, height, palette, strength): the
\* grid returned, the cache left behind and the image buffer afterwards
\* (the buffer is only read).
floydSteinbergDither(a, cache, pals) ==
    CHOOSE res \in
        { DitherReturn(a,
              FsLoop(a,
                     [curr |-> NewErrRow(a.img.width), next |-> NewErrRow(a.img.width),
                      result |-> FirstEntryGrid(a.img.width, a.img.height,
                                                pals[a.palette]),
                      cache |-> [palette |-> c.palette, table |-> c.table]],
                     0, pals)) :
            c \in { buildColorLookupTable(cache.palette, cache.table,
                                          a.palette, pals) } } : TRUE

bayer4 == << <<0, 8, 2, 10>>, <<12, 4, 14, 6>>, <<3, 11, 1, 9>>, <<15, 7, 13, 5>> >>

\* (v / 16 - 0.5) * strength * 64 = (v - 8) * 4 * k / StrengthDen, an
\* integer for the strengths of the model
BayerVal(v, k) == ((v - 8) * 4 * k) \div StrengthDen

\* r, g, b of bayerDither; the channels are integers after the threshold is
\* added, so Math.round leaves them alone
BayerTarget(px, bayerVal) ==
    Rgb(Clamp255(px.r + bayerVal), Clamp255(px.g + bayerVal), Clamp255(px.b + bayerVal))

BayerEmit(a, st, x, y, f, pals) ==
    [result |-> [st.result EXCEPT ![y + 1][x + 1] = EntryAt(pals[a.palette], f.idx)],
     cache |-> [palette |-> f.palette, table |-> f.table]]

\* The body of the inner loop of bayerDither for the pixel (x, y).
BayerPixel(a, st, x, y, pals) ==
    IF a.img.data[y * a.img.width + x + 1].a < 128 THEN st
    ELSE BayerEmit(a, st, x, y,
             findClosestPaletteColorFast(st.cache.palette, st.cache.table,
                 BayerTarget(a.img.data[y * a.img.width + x + 1],
                             BayerVal(bayer4[(y % 4) + 1][(x % 4) + 1], a.strength)),
                 a.palette, pals),
             pals)

\* The two loops of bayerDither from pixel number n on.
RECURSIVE BayerLoop(_, _, _, _)
BayerLoop(a, st, n, pals) ==
    IF n >= a.img.width * a.img.height THEN st
    ELSE BayerLoop(a,
                   CHOOSE s1 \in
                       { BayerPixel(a, s, n % a.img.width, n \div a.img.width, pals) :
                           s \in {st} } : TRUE,
                   n + 1, pals)

\* bayerDither(imageData, width, height, palette, strength)
bayerDither(a, cache, pals) ==
    CHOOSE res \in
        { DitherReturn(a,
              BayerLoop(a,
                        [result |-> FirstEntryGrid(a.img.width, a.img.height,
                                                   pals[a.palette]),
                         cache |-> [palette |-> c.palette, table |-> c.table]],
                        0, pals)) :
            c \in { buildColorLookupTable(cache.palette, cache.table,
                                          a.palette, pals) } } : TRUE

\* ---- whole-grid rewrites on arrays ----

\* The test without the external flag.
ReplaceMatchesAny(cell, srcUpper) ==
    cell # NoCell /\ toUpperCase(cell.color) = srcUpper

\* cell && !cell.isExternal && cell.color.toUpperCase() === srcUpper
ReplaceMatches(cell, srcUpper) ==
    cell # NoCell /\ cell.isExternal # ExtTrue /\ toUpperCase(cell.color) = srcUpper

\* the body of the inner loop of replaceColor for cell (row j, column i):
\* on a match the row is copied if it was not yet, the cell written and
\* counted
ReplaceStep(st, next, j, i, srcUpper, target) ==
    IF ~ReplaceMatches(HeapCellAt(st.heap, next, j, i), srcUpper) THEN st
    ELSE LET rowId == IF st.rowCopied THEN st.heap[next][j + 1] ELSE NewId(st.heap)
             h1 == IF st.rowCopied THEN st.heap
                   ELSE Store(st.heap, rowId, st.heap[st.heap[next][j + 1]])
             h2 == Store(h1, next, [h1[next] EXCEPT ![j + 1] = rowId])
             h3 == Store(h2, rowId,
                         [h2[rowId] EXCEPT ![i + 1] = [target EXCEPT !.isExternal = ExtFalse]])
         IN  [heap |-> h3, rowCopied |-> TRUE, count |-> st.count + 1]

\* the two loops of replaceColor from cell number k (= j*N + i) on;
\* rowCopied starts false in every row
RECURSIVE ReplaceLoop(_, _, _, _, _, _, _)
ReplaceLoop(st, next, N, M, k, srcUpper, target) ==
    IF k >= N * M THEN st
    ELSE ReplaceLoop(ReplaceStep(IF k % N = 0 THEN [st EXCEPT !.rowCopied = FALSE] ELSE st,
                                 next, k \div N, k % N, srcUpper, target),
                     next, N, M, k + 1, srcUpper, target)

\* replaceColor(pixels, dims, sourceHex, target): the heap after the call,
\* newPixels and count
replaceColor(heap, pixels, N, M, sourceHex, target) ==
    LET next == NewId(heap)
        st == ReplaceLoop([heap |-> Store(heap, next, heap[pixels]),
                           rowCopied |-> FALSE, count |-> 0],
                          next, N, M, 0, toUpperCase(sourceHex), target)
    IN  [heap |-> st.heap, result |-> next, count |-> st.count]

\* `mergeMap.get(cell.color.toUpperCase())` is found for a bead cell
MergeMatches(cell, mergeMap) ==
    ~NotABead(cell) /\ toUpperCase(cell.color) \in DOMAIN mergeMap

\* the outer loop of applyColorMerge from row j (from 1) on: a row with a
\* match is a new array, the spread copy of pixels[j] with the matches
\* rewritten, any other row is pixels[j] itself
RECURSIVE MergeRows(_, _, _, _, _, _)
MergeRows(heap, pixels, result, j, mergeMap, mergeKeyMap) ==
    IF j > Len(heap[pixels]) THEN heap
    ELSE LET row == heap[heap[pixels][j]]
         IN  IF \E i \in 1..Len(row) : MergeMatches(row[i], mergeMap)
             THEN LET newRow == NewId(heap)
                      h1 == Store(heap, newRow,
                                  [i \in 1..Len(row) |-> MergeCell(row[i], mergeMap, mergeKeyMap)])
                  IN  MergeRows(Store(h1, result, Append(h1[result], newRow)),
                                pixels, result, j + 1, mergeMap, mergeKeyMap)
             ELSE MergeRows(Store(heap, result, Append(heap[result], heap[pixels][j])),
                            pixels, result, j + 1, mergeMap, mergeKeyMap)

\* applyColorMerge(pixels, mergeMap, mergeKeyMap) on arrays
applyColorMergeRows(heap, pixels, mergeMap, mergeKeyMap) ==
    IF Cardinality(DOMAIN mergeMap) = 0 THEN [heap |-> heap, result |-> pixels]
    ELSE LET result == NewId(heap)
         IN  [heap |-> MergeRows(Store(heap, result, <<>>), pixels, result, 1,
                                 mergeMap, mergeKeyMap),
              result |-> result]

\* `pixels.map((r) => r.map((c) => ({ ...c })))` with the grid `grid` the
\* loop leaves in it: a new outer array and one new array for every row
MappedCopy(heap, pixels, grid) ==
    LET next == NewId(heap)
        M == Len(heap[pixels])
    IN  [heap |-> [id \in DOMAIN heap \cup (next..(next + M)) |->
                      IF id \in DOMAIN heap THEN heap[id]
                      ELSE IF id = next THEN [r \in 1..M |-> next + r]
                      ELSE grid[id - next]],
         result |-> next]

\* floodFill on arrays: the argument on the two early returns, else the
\* copy `next` after the loop
floodFillRows(heap, pixels, N, M, startRow, startCol, fillValue) ==
    IF floodFillReturns(GridOf(heap, pixels), startRow, startCol, fillValue) = "pixels"
    THEN [heap |-> heap, result |-> pixels]
    ELSE MappedCopy(heap, pixels,
                    floodFill(GridOf(heap, pixels), N, M, startRow, startCol, fillValue))

\* floodFillErase on arrays: always the copy `next`
floodFillEraseRows(heap, pixels, N, M, startRow, startCol, targetKey) ==
    MappedCopy(heap, pixels,
               floodFillErase(GridOf(heap, pixels), N, M, startRow, startCol, targetKey))

----------------------------------------------------------------------------
(* 7. Specifications                                                       *)

SeqsUpTo(S, n) == UNION { [1..k -> S] : k \in 0..n }

NoCall ==
    [op |-> "none", pal |-> NoPalette, target |-> NoRgb, idx |-> 0,
     rebuilt |-> FALSE, cachedBefore |-> NoPalette]

\* ---- exact nearest colour: inputs drawn at Init, one call ----

MaxPal == 3

EntryA  == Entry("A", HFF0000)
EntryA2 == Entry("A2", Hff0000)
EntryB  == Entry("B", H0000FF)
EntryK0 == Entry("K0", H000000)
EntryK4 == Entry("K4", H040404)
EntryG8 == Entry("G8", H000800)

ExactEntries == { EntryA, EntryA2, EntryB, EntryK0, EntryG8 }

ExactTargets ==
    { Rgb(250, 10, 10), Rgb(0, 4, 0), Rgb(255, 0, 0), Rgb(0, 0, 0), Rgb(128, 128, 128) }

\* The variables a specification does not use stay at these values.
NearestIdle == nTarget = NoRgb /\ nPalette = <<>> /\ nPc = "idle" /\ nResult = 0

CltIdle == palettes = <<>> /\ cltPalette = NoPalette /\ cltTable = NoTable /\ call = NoCall

RepIdle == repArgs = <<>> /\ repPc = "idle" /\ repResult = NoRgb

PixIdle == pixArgs = <<>> /\ pixPc = "idle" /\ pixGrid = <<>>

MergeIdle ==
    mUsage = <<>> /\ mTarget = 0 /\ mPc = "idle" /\ mState = <<>> /\ mPlan = <<>>

OptIdle ==
    oGrid = <<>> /\ oTarget = 0 /\ oPc = "idle" /\ oPlan = <<>> /\ oOnce = <<>> /\ oTwice = <<>>

FillIdle ==
    fArgs = <<>> /\ fPc = "idle" /\ fResult = <<>> /\ fRef = "none" /\ fKey = ""

PaintIdle ==
    /\ pArgs = <<>> /\ pOp = <<>> /\ pPc = "idle" /\ pHeap = <<>>
    /\ pResult = NullGrid /\ pCopies = <<>>

LineIdle == lArgs = <<>> /\ lPc = "idle" /\ lSt = <<>>

CircleIdle == cArgs = <<>> /\ cPc = "idle" /\ cSt = <<>> /\ cResult = <<>>

DitherIdle ==
    /\ dArgs = <<>> /\ dPc = "idle" /\ dData = <<>>
    /\ dFirst = <<>> /\ dSecond = <<>> /\ dOther = NoPalette

StoreIdle ==
    /\ sDims = <<>> /\ sPixels = <<>> /\ sMode = "idle" /\ sPast = <<>> /\ sFuture = <<>>

RectIdle ==
    rcArgs = <<>> /\ rcPc = "idle" /\ rcReads = <<>>

PreviewIdle ==
    /\ vHeap = <<>> /\ vUsage = <<>> /\ vBefore = <<>> /\ vTarget = 0
    /\ vPc = "idle" /\ vPreview = <<>> /\ vPlan = <<>>

ShareIdle ==
    /\ hArgs = <<>> /\ hOp = <<>> /\ hPc = "idle" /\ hHeap = <<>>
    /\ hResult = 0 /\ hCount = 0

BuildIdle ==
    bPc = "idle" /\ bNext = 0 /\ bQuery = NoRgb

CellsIdle ==
    gGrid = <<>> /\ gLast = "idle"

StatsIdle ==
    /\ tStore = <<>> /\ tHeap = <<>> /\ tCachedColorStats = <<>>
    /\ tCachedStatsPixelsRef = 0 /\ tReturned = <<>> /\ tRecounted = FALSE
    /\ tSameRef = FALSE /\ tUnchanged = FALSE /\ tLast = "idle"

DirtyIdle ==
    dState = <<>> /\ dPrev = <<>> /\ dUnsaved = FALSE /\ dOverflow = FALSE /\ dLast = "idle"

RepixIdle ==
    xArgs = <<>> /\ xPc = "idle" /\ xGrid = <<>>

NearestInit ==
    /\ nTarget \in ExactTargets
    /\ nPalette \in SeqsUpTo(ExactEntries, MaxPal)
    /\ nPc = "call"
    /\ nResult = 0
    /\ CltIdle /\ RepIdle /\ PixIdle /\ MergeIdle /\ OptIdle /\ FillIdle /\ PaintIdle
    /\ LineIdle /\ CircleIdle /\ DitherIdle
    /\ StoreIdle
    /\ RectIdle
    /\ PreviewIdle
    /\ ShareIdle
    /\ BuildIdle
    /\ CellsIdle
    /\ StatsIdle
    /\ DirtyIdle
    /\ RepixIdle

NearestCall ==
    /\ nPc = "call"
    /\ nResult' = findClosestIndex(nTarget, nPalette)
    /\ nPc' = "returned"
    /\ UNCHANGED <<nTarget, nPalette>>
    /\ UNCHANGED <<cltVars, repVars, pixVars, mergeVars, optVars, fillVars,
                 paintVars, lineVars, circleVars, ditherVars, storeVars,
                 rectVars,
                 previewVars,
                 shareVars,
                 buildVars,
                 cellVars,
                 statsVars,
                 dirtyVars,
                 repixVars>>

\* ---- lookup-table cache: two palette instances, any interleaving ----

MaxCltPal == 2

PalIds == { "p1", "p2" }

CltEntries == { EntryK0, EntryK4 }

CltInit ==
    /\ palettes \in [PalIds -> SeqsUpTo(CltEntries, MaxCltPal)]
    /\ cltPalette = NoPalette
    /\ cltTable = NoTable
    /\ call = NoCall
    /\ NearestIdle /\ RepIdle /\ PixIdle /\ MergeIdle /\ OptIdle /\ FillIdle /\ PaintIdle
    /\ LineIdle /\ CircleIdle /\ DitherIdle
    /\ StoreIdle
    /\ RectIdle
    /\ PreviewIdle
    /\ ShareIdle
    /\ BuildIdle
    /\ CellsIdle
    /\ StatsIdle
    /\ DirtyIdle
    /\ RepixIdle

CallBuild(p) ==
    LET c == buildColorLookupTable(cltPalette, cltTable, p, palettes)
    IN  /\ cltPalette' = c.palette
        /\ cltTable' = c.table
        /\ call' = [op |-> "build", pal |-> p, target |-> NoRgb, idx |-> 0,
                    rebuilt |-> c.rebuilt, cachedBefore |-> cltPalette]
        /\ UNCHANGED palettes
        /\ UNCHANGED <<nearestVars, repVars, pixVars, mergeVars, optVars, fillVars,
                     paintVars, lineVars, circleVars, ditherVars, storeVars,
                 rectVars,
                 previewVars,
                 shareVars,
                 buildVars,
                 cellVars,
                 statsVars,
                 dirtyVars,
                 repixVars>>

CallFast(t, p) ==
    LET c == findClosestPaletteColorFast(cltPalette, cltTable, t, p, palettes)
    IN  /\ cltPalette' = c.palette
        /\ cltTable' = c.table
        /\ call' = [op |-> "fast", pal |-> p, target |-> t, idx |-> c.idx,
                    rebuilt |-> c.rebuilt, cachedBefore |-> cltPalette]
        /\ UNCHANGED palettes
        /\ UNCHANGED <<nearestVars, repVars, pixVars, mergeVars, optVars, fillVars,
                     paintVars, lineVars, circleVars, ditherVars, storeVars,
                 rectVars,
                 previewVars,
                 shareVars,
                 buildVars,
                 cellVars,
                 statsVars,
                 dirtyVars,
                 repixVars>>

CallExact(t, p) ==
    /\ call' = [op |-> "exact", pal |-> p, target |-> t,
                idx |-> findClosestIndex(t, palettes[p]),
                rebuilt |-> FALSE, cachedBefore |-> cltPalette]
    /\ UNCHANGED <<palettes, cltPalette, cltTable>>
    /\ UNCHANGED <<nearestVars, repVars, pixVars, mergeVars, optVars, fillVars,
                 paintVars, lineVars, circleVars, ditherVars, storeVars,
                 rectVars,
                 previewVars,
                 shareVars,
                 buildVars,
                 cellVars,
                 statsVars,
                 dirtyVars,
                 repixVars>>

NearestNext == NearestCall

CltNext ==
    \/ \E p \in PalIds : CallBuild(p)
    \/ \E p \in PalIds, t \in FastTargets : CallFast(t, p)
    \/ \E p \in PalIds, t \in FastTargets : CallExact(t, p)

SpecNearest == NearestInit /\ [][NearestNext]_vars

SpecCLT == CltInit /\ [][CltNext]_vars

\* ---- cellRepresentativeColor: image, rectangle and mode drawn at Init ----

MaxPixels == 4

Px(r, g, b, a) == [r |-> r, g |-> g, b |-> b, a |-> a]

RepPixels == { Px(8, 3, 3, 127), Px(0, 0, 0, 128), Px(8, 3, 3, 255), Px(250, 10, 10, 255) }

Modes == { "average", "dominant" }

RepInit ==
    /\ \E W \in 1..MaxPixels, H \in 1..MaxPixels :
          /\ W * H <= MaxPixels
          /\ \E d \in [1..(W * H) -> RepPixels], sx \in 0..(W - 1), sy \in 0..(H - 1) :
                \E w \in 1..(W - sx), h \in 1..(H - sy), mode \in Modes :
                    repArgs = [img |-> [width |-> W, height |-> H, data |-> d],
                               sx |-> sx, sy |-> sy, w |-> w, h |-> h, mode |-> mode]
    /\ repPc = "call"
    /\ repResult = NoRgb
    /\ NearestIdle /\ CltIdle /\ PixIdle /\ MergeIdle /\ OptIdle /\ FillIdle /\ PaintIdle
    /\ LineIdle /\ CircleIdle /\ DitherIdle
    /\ StoreIdle
    /\ RectIdle
    /\ PreviewIdle
    /\ ShareIdle
    /\ BuildIdle
    /\ CellsIdle
    /\ StatsIdle
    /\ DirtyIdle
    /\ RepixIdle

RepCall ==
    /\ repPc = "call"
    /\ repResult' = cellRepresentativeColor(repArgs.img, repArgs.sx, repArgs.sy,
                                            repArgs.w, repArgs.h, repArgs.mode)
    /\ repPc' = "returned"
    /\ UNCHANGED repArgs
    /\ UNCHANGED <<nearestVars, cltVars, pixVars, mergeVars, optVars, fillVars,
                 paintVars, lineVars, circleVars, ditherVars, storeVars,
                 rectVars,
                 previewVars,
                 shareVars,
                 buildVars,
                 cellVars,
                 statsVars,
                 dirtyVars,
                 repixVars>>

SpecRep == RepInit /\ [][RepCall]_vars

\* ---- calculatePixelGrid: image, grid size, palette, mode, fallback and
\* ---- the state of the lookup-table cache drawn at Init

MaxCells == 4

EntryE16 == Entry("E16", <<1, 0, 0, 3, 0, 3>>)

PixPalettes == [p \in PalIds |-> IF p = "p1" THEN <<EntryK0, EntryE16>> ELSE <<>>]

PixPixels == { Px(8, 3, 3, 127), Px(0, 0, 0, 128), Px(8, 3, 3, 255) }

PixInit ==
    /\ palettes = PixPalettes
    /\ cltPalette \in {NoPalette, "p2"}
    /\ cltTable = IF cltPalette = NoPalette THEN NoTable ELSE FilledTable(palettes[cltPalette])
    /\ call = NoCall
    /\ \E W \in 1..MaxPixels, H \in 1..MaxPixels, N \in 1..MaxCells, M \in 1..MaxCells :
          /\ W * H <= MaxPixels
          /\ N * M <= MaxCells
          /\ \E d \in [1..(W * H) -> PixPixels], p \in PalIds, mode \in Modes,
                fb \in {EntryK0, EntryE16} :
                pixArgs = [img |-> [width |-> W, height |-> H, data |-> d],
                           N |-> N, M |-> M, palette |-> p, mode |-> mode,
                           fallback |-> fb]
    /\ pixPc = "call"
    /\ pixGrid = <<>>
    /\ NearestIdle /\ RepIdle /\ MergeIdle /\ OptIdle /\ FillIdle /\ PaintIdle
    /\ LineIdle /\ CircleIdle /\ DitherIdle
    /\ StoreIdle
    /\ RectIdle
    /\ PreviewIdle
    /\ ShareIdle
    /\ BuildIdle
    /\ CellsIdle
    /\ StatsIdle
    /\ DirtyIdle
    /\ RepixIdle

PixCall ==
    /\ pixPc = "call"
    /\ LET res == calculatePixelGrid(pixArgs,
                      [palette |-> cltPalette, table |-> cltTable], palettes)
       IN  /\ pixGrid' = res.grid
           /\ cltPalette' = res.cache.palette
           /\ cltTable' = res.cache.table
    /\ pixPc' = "done"
    /\ UNCHANGED <<pixArgs, palettes, call>>
    /\ UNCHANGED <<nearestVars, repVars, mergeVars, optVars, fillVars,
                 paintVars, lineVars, circleVars, ditherVars, storeVars,
                 rectVars,
                 previewVars,
                 shareVars,
                 buildVars,
                 cellVars,
                 statsVars,
                 dirtyVars,
                 repixVars>>

SpecPix == PixInit /\ [][PixCall]_vars

\* ---- calculateMergePlan, one loop iteration per step ----

MaxUsage == 3

UsedColours ==
    { [hex |-> H000000, key |-> "K0"], [hex |-> H010101, key |-> "K1"],
      [hex |-> <<0, 2, 0, 2, 0, 2>>, key |-> "K2"], [hex |-> HFFFFFF, key |-> "W"] }

Counts == { 1, 5, 10 }

\* usage lists as collectColorUsage makes them: upper-case hexes, pairwise
\* distinct, rgb parsed from the hex, counts at least 1
UsageLists ==
    { u \in SeqsUpTo({ Usage(c.hex, c.key, hexToRgb(c.hex), n) : c \in UsedColours, n \in Counts },
                     MaxUsage) :
        \A i, j \in 1..Len(u) : i # j => u[i].hex # u[j].hex }

MergeInit ==
    /\ mUsage \in UsageLists
    /\ mTarget \in 0..MaxUsage
    /\ mPc = "call"
    /\ mState = <<>>
    /\ mPlan = <<>>
    /\ NearestIdle /\ CltIdle /\ RepIdle /\ PixIdle /\ OptIdle /\ FillIdle /\ PaintIdle
    /\ LineIdle /\ CircleIdle /\ DitherIdle
    /\ StoreIdle
    /\ RectIdle
    /\ PreviewIdle
    /\ ShareIdle
    /\ BuildIdle
    /\ CellsIdle
    /\ StatsIdle
    /\ DirtyIdle
    /\ RepixIdle

\* the early exit, or the clones and the empty maps
PlanEnter ==
    /\ mPc = "call"
    /\ IF Len(mUsage) <= mTarget
       THEN /\ mPc' = "done"
            /\ mPlan' = MergeResult(<<>>, <<>>, Len(mUsage), Len(mUsage))
            /\ UNCHANGED mState
       ELSE /\ mPc' = "loop"
            /\ mState' = PlanStart(mUsage)
            /\ UNCHANGED mPlan
    /\ UNCHANGED <<mUsage, mTarget>>
    /\ UNCHANGED <<nearestVars, cltVars, repVars, pixVars, optVars, fillVars,
                 paintVars, lineVars, circleVars, ditherVars, storeVars,
                 rectVars,
                 previewVars,
                 shareVars,
                 buildVars,
                 cellVars,
                 statsVars,
                 dirtyVars,
                 repixVars>>

PlanIterate ==
    /\ mPc = "loop"
    /\ Len(mState.active) > mTarget
    /\ mState' = MergeIteration(mState)
    /\ mPc' = IF mState'.threw THEN "threw" ELSE "loop"
    /\ UNCHANGED <<mUsage, mTarget, mPlan>>
    /\ UNCHANGED <<nearestVars, cltVars, repVars, pixVars, optVars, fillVars,
                 paintVars, lineVars, circleVars, ditherVars, storeVars,
                 rectVars,
                 previewVars,
                 shareVars,
                 buildVars,
                 cellVars,
                 statsVars,
                 dirtyVars,
                 repixVars>>

PlanReturn ==
    /\ mPc = "loop"
    /\ Len(mState.active) <= mTarget
    /\ mPlan' = MergeResult(mState.mergeMap, mState.mergeKeyMap,
                            Len(mUsage), Len(mState.active))
    /\ mPc' = "done"
    /\ UNCHANGED <<mUsage, mTarget, mState>>
    /\ UNCHANGED <<nearestVars, cltVars, repVars, pixVars, optVars, fillVars,
                 paintVars, lineVars, circleVars, ditherVars, storeVars,
                 rectVars,
                 previewVars,
                 shareVars,
                 buildVars,
                 cellVars,
                 statsVars,
                 dirtyVars,
                 repixVars>>

MergeNext == PlanEnter \/ PlanIterate \/ PlanReturn

\* The call runs to completion on the one thread there is.
SpecMerge == MergeInit /\ [][MergeNext]_vars /\ WF_vars(MergeNext)

\* ---- optimizeColors on a grid, then the same plan applied again ----

MergeCells ==
    { Cell("W", HFFFFFF, ExtFalse), Cell("K1", H010101, ExtUndefined),
      Cell("K0", H000000, ExtFalse), Cell("A", Hff0000, ExtFalse), transparentPixel }

OptInit ==
    /\ \E M \in 1..MaxCells, N \in 1..MaxCells :
          /\ M * N <= MaxCells
          /\ oGrid \in [1..M -> [1..N -> MergeCells]]
    /\ oTarget \in 0..MaxCells
    /\ oPc = "call"
    /\ oPlan = <<>>
    /\ oOnce = <<>>
    /\ oTwice = <<>>
    /\ NearestIdle /\ CltIdle /\ RepIdle /\ PixIdle /\ MergeIdle /\ FillIdle /\ PaintIdle
    /\ LineIdle /\ CircleIdle /\ DitherIdle
    /\ StoreIdle
    /\ RectIdle
    /\ PreviewIdle
    /\ ShareIdle
    /\ BuildIdle
    /\ CellsIdle
    /\ StatsIdle
    /\ DirtyIdle
    /\ RepixIdle

\* collectColorUsage and calculateMergePlan of optimizeColors
OptPlan ==
    /\ oPc = "call"
    /\ LET r == calculateMergePlan(collectColorUsage(oGrid), oTarget)
       IN  /\ oPc' = IF r.threw THEN "threw" ELSE "planned"
           /\ oPlan' = r.plan
    /\ UNCHANGED <<oGrid, oTarget, oOnce, oTwice>>
    /\ UNCHANGED <<nearestVars, cltVars, repVars, pixVars, mergeVars, fillVars,
                 paintVars, lineVars, circleVars, ditherVars, storeVars,
                 rectVars,
                 previewVars,
                 shareVars,
                 buildVars,
                 cellVars,
                 statsVars,
                 dirtyVars,
                 repixVars>>

\* applyColorMerge of optimizeColors
OptApply ==
    /\ oPc = "planned"
    /\ oOnce' = applyColorMerge(oGrid, oPlan.mergeMap, oPlan.mergeKeyMap)
    /\ oPc' = "applied"
    /\ UNCHANGED <<oGrid, oTarget, oPlan, oTwice>>
    /\ UNCHANGED <<nearestVars, cltVars, repVars, pixVars, mergeVars, fillVars,
                 paintVars, lineVars, circleVars, ditherVars, storeVars,
                 rectVars,
                 previewVars,
                 shareVars,
                 buildVars,
                 cellVars,
                 statsVars,
                 dirtyVars,
                 repixVars>>

OptApplyAgain ==
    /\ oPc = "applied"
    /\ oTwice' = applyColorMerge(oOnce, oPlan.mergeMap, oPlan.mergeKeyMap)
    /\ oPc' = "reapplied"
    /\ UNCHANGED <<oGrid, oTarget, oPlan, oOnce>>
    /\ UNCHANGED <<nearestVars, cltVars, repVars, pixVars, mergeVars, fillVars,
                 paintVars, lineVars, circleVars, ditherVars, storeVars,
                 rectVars,
                 previewVars,
                 shareVars,
                 buildVars,
                 cellVars,
                 statsVars,
                 dirtyVars,
                 repixVars>>

OptNext == OptPlan \/ OptApply \/ OptApplyAgain

SpecOptimize == OptInit /\ [][OptNext]_vars

\* ---- floodFill: inputs drawn at Init, one call ----

FillCells ==
    { Cell("A", HFF0000, ExtUndefined), Cell("A2", HFF0000, ExtFalse),
      Cell("A", HFF0000, ExtTrue), Cell("B", H0000FF, ExtUndefined) }

FillValues ==
    { Cell("B", H0000FF, ExtFalse), Cell("A", HFF0000, ExtTrue),
      Cell("A", HFF0000, ExtUndefined) }

FillInit ==
    /\ \E M \in 1..MaxCells, N \in 1..MaxCells :
          /\ M * N <= MaxCells
          /\ \E pixels \in [1..M -> [1..N -> FillCells]],
                start \in { Pos(r, c) : r \in 0..(M - 1), c \in 0..(N - 1) }
                             \cup { Pos(-1, 0), Pos(M, 0), Pos(0, N) },
                fillValue \in FillValues :
                fArgs = [pixels |-> pixels, N |-> N, M |-> M,
                         startRow |-> start.row, startCol |-> start.col,
                         fillValue |-> fillValue]
    /\ fPc = "call"
    /\ fResult = <<>>
    /\ fRef = "none"
    /\ fKey = ""
    /\ NearestIdle /\ CltIdle /\ RepIdle /\ PixIdle /\ MergeIdle /\ OptIdle /\ PaintIdle
    /\ LineIdle /\ CircleIdle /\ DitherIdle
    /\ StoreIdle
    /\ RectIdle
    /\ PreviewIdle
    /\ ShareIdle
    /\ BuildIdle
    /\ CellsIdle
    /\ StatsIdle
    /\ DirtyIdle
    /\ RepixIdle

FillCall ==
    /\ fPc = "call"
    /\ fPc' = "done"
    /\ fResult' = floodFill(fArgs.pixels, fArgs.N, fArgs.M, fArgs.startRow,
                            fArgs.startCol, fArgs.fillValue)
    /\ fRef' = floodFillReturns(fArgs.pixels, fArgs.startRow, fArgs.startCol,
                                fArgs.fillValue)
    /\ UNCHANGED <<fArgs, fKey>>
    /\ UNCHANGED <<nearestVars, cltVars, repVars, pixVars, mergeVars, optVars,
                 paintVars, lineVars, circleVars, ditherVars, storeVars,
                 rectVars,
                 previewVars,
                 shareVars,
                 buildVars,
                 cellVars,
                 statsVars,
                 dirtyVars,
                 repixVars>>

EraseKeys == {"A", "A2", "B"}

\* floodFillErase on the same grid and start, the fill value unused
EraseCall ==
    /\ fPc = "call"
    /\ \E targetKey \in EraseKeys :
          /\ fKey' = targetKey
          /\ fResult' = floodFillErase(fArgs.pixels, fArgs.N, fArgs.M, fArgs.startRow,
                                       fArgs.startCol, targetKey)
    /\ fRef' = "next"
    /\ fPc' = "erased"
    /\ UNCHANGED fArgs
    /\ UNCHANGED <<nearestVars, cltVars, repVars, pixVars, mergeVars, optVars,
                 paintVars, lineVars, circleVars, ditherVars, storeVars,
                 rectVars,
                 previewVars,
                 shareVars,
                 buildVars,
                 cellVars,
                 statsVars,
                 dirtyVars,
                 repixVars>>

FillNext == FillCall \/ EraseCall

SpecFill == FillInit /\ [][FillNext]_vars

\* ---- paintPixel and paintCells on a grid allocated at Init ----

MaxCand == 2

PixelsId == 1

\* the outer array of the argument at id 1, its rows at ids 2, 3, ...
InputHeap(pixels) ==
    [id \in 1..(Len(pixels) + 1) |->
        IF id = PixelsId THEN [r \in 1..Len(pixels) |-> r + 1] ELSE pixels[id - 1]]

\* a cell as calculatePixelGrid writes it, the same with an explicit flag,
\* and an external cell
PaintGridCells ==
    { Cell("K0", H000000, ExtUndefined), Cell("K0", H000000, ExtFalse),
      Cell("A", HFF0000, ExtTrue) }

\* the values the pencil and the shape tools build from a palette entry
PaintValues == { Cell("K0", H000000, ExtFalse), Cell("A", HFF0000, ExtFalse) }

PaintInit ==
    /\ \E M \in 1..MaxCells, N \in 1..MaxCells :
          /\ M * N <= MaxCells
          /\ \E pixels \in [1..M -> [1..N -> PaintGridCells]], value \in PaintValues :
                /\ pArgs = [pixels |-> pixels, N |-> N, M |-> M, value |-> value]
                /\ pHeap = InputHeap(pixels)
    /\ pOp = <<>>
    /\ pPc = "call"
    /\ pResult = NullGrid
    /\ pCopies = <<>>
    /\ NearestIdle /\ CltIdle /\ RepIdle /\ PixIdle /\ MergeIdle /\ OptIdle /\ FillIdle
    /\ LineIdle /\ CircleIdle /\ DitherIdle
    /\ StoreIdle
    /\ RectIdle
    /\ PreviewIdle
    /\ ShareIdle
    /\ BuildIdle
    /\ CellsIdle
    /\ StatsIdle
    /\ DirtyIdle
    /\ RepixIdle

PaintPixelCall ==
    /\ pPc = "call"
    /\ \E row \in (-1)..pArgs.M, col \in (-1)..pArgs.N :
          LET r == paintPixel(pHeap, PixelsId, row, col, pArgs.value)
          IN  /\ pOp' = [op |-> "paintPixel", row |-> row, col |-> col]
              /\ pHeap' = r.heap
              /\ pResult' = r.result
              /\ pCopies' = r.copies
    /\ pPc' = "done"
    /\ UNCHANGED pArgs
    /\ UNCHANGED <<nearestVars, cltVars, repVars, pixVars, mergeVars, optVars, fillVars, lineVars, circleVars, ditherVars, storeVars,
                 rectVars,
                 previewVars,
                 shareVars,
                 buildVars,
                 cellVars,
                 statsVars,
                 dirtyVars,
                 repixVars>>

\* the in-grid positions and one position past the last column
Candidates ==
    { Pos(r, c) : r \in 0..(pArgs.M - 1), c \in 0..(pArgs.N - 1) } \cup { Pos(0, pArgs.N) }

PaintCellsCall ==
    /\ pPc = "call"
    /\ \E cells \in SeqsUpTo(Candidates, MaxCand) :
          LET r == paintCells(pHeap, PixelsId, pArgs.N, pArgs.M, cells, pArgs.value)
          IN  /\ pOp' = [op |-> "paintCells", cells |-> cells]
              /\ pHeap' = r.heap
              /\ pResult' = r.result
              /\ pCopies' = r.copies
    /\ pPc' = "done"
    /\ UNCHANGED pArgs
    /\ UNCHANGED <<nearestVars, cltVars, repVars, pixVars, mergeVars, optVars, fillVars, lineVars, circleVars, ditherVars, storeVars,
                 rectVars,
                 previewVars,
                 shareVars,
                 buildVars,
                 cellVars,
                 statsVars,
                 dirtyVars,
                 repixVars>>

PaintNext == PaintPixelCall \/ PaintCellsCall

SpecPaint == PaintInit /\ [][PaintNext]_vars

\* ---- linePixels, one loop iteration per step ----

MaxCoord == 3

Coords == (-MaxCoord)..MaxCoord

\* more cells than any line between two points of Coords has
LineCap == 4 * MaxCoord + 2

LineInit ==
    /\ \E c0 \in Coords, r0 \in Coords, c1 \in Coords, r1 \in Coords :
          /\ lArgs = [c0 |-> c0, r0 |-> r0, c1 |-> c1, r1 |-> r1]
          /\ lSt = LineStart(c0, r0, c1, r1)
    /\ lPc = "loop"
    /\ NearestIdle /\ CltIdle /\ RepIdle /\ PixIdle /\ MergeIdle /\ OptIdle /\ FillIdle
    /\ PaintIdle /\ CircleIdle /\ DitherIdle
    /\ StoreIdle
    /\ RectIdle
    /\ PreviewIdle
    /\ ShareIdle
    /\ BuildIdle
    /\ CellsIdle
    /\ StatsIdle
    /\ DirtyIdle
    /\ RepixIdle

LineStep ==
    /\ lPc = "loop"
    /\ Len(lSt.result) < LineCap
    /\ lSt' = LineIteration(lSt, lArgs.c0, lArgs.r0, lArgs.c1, lArgs.r1)
    /\ lPc' = IF lSt'.broke THEN "done" ELSE "loop"
    /\ UNCHANGED lArgs
    /\ UNCHANGED <<nearestVars, cltVars, repVars, pixVars, mergeVars, optVars, fillVars,
                   paintVars, circleVars, ditherVars, storeVars,
                 rectVars,
                 previewVars,
                 shareVars,
                 buildVars,
                 cellVars,
                 statsVars,
                 dirtyVars,
                 repixVars>>

LineNext == LineStep

\* The call runs to completion on the one thread there is.
SpecLine == LineInit /\ [][LineNext]_vars /\ WF_vars(LineNext)

\* ---- circlePixels: inputs drawn at Init, one call ----

MaxRadius == 4

CircleInit ==
    /\ \E cx \in Coords, cy \in Coords, radius \in (-1)..MaxRadius, filled \in BOOLEAN :
          cArgs = [cx |-> cx, cy |-> cy, radius |-> radius, filled |-> filled]
    /\ cPc = "call"
    /\ cSt = <<>>
    /\ cResult = <<>>
    /\ NearestIdle /\ CltIdle /\ RepIdle /\ PixIdle /\ MergeIdle /\ OptIdle /\ FillIdle
    /\ PaintIdle /\ LineIdle /\ DitherIdle
    /\ StoreIdle
    /\ RectIdle
    /\ PreviewIdle
    /\ ShareIdle
    /\ BuildIdle
    /\ CellsIdle
    /\ StatsIdle
    /\ DirtyIdle
    /\ RepixIdle

\* up to the first loop test: the centre alone is returned for radius <= 0,
\* the outline branch plots (radius, 0) before its loop
CircleEnter ==
    /\ cPc = "call"
    /\ IF cArgs.radius <= 0
       THEN /\ cPc' = "done"
            /\ cResult' = Add(NoCells, cArgs.cx, cArgs.cy).result
            /\ UNCHANGED cSt
       ELSE IF cArgs.filled
       THEN /\ cPc' = "filled"
            /\ cSt' = [cells |-> NoCells, r |-> -cArgs.radius]
            /\ UNCHANGED cResult
       ELSE /\ cPc' = "outline"
            /\ cSt' = [cells |-> plotOctants(NoCells, cArgs.cx, cArgs.cy, cArgs.radius, 0),
                       x |-> cArgs.radius, y |-> 0, d |-> 1 - cArgs.radius]
            /\ UNCHANGED cResult
    /\ UNCHANGED cArgs
    /\ UNCHANGED <<nearestVars, cltVars, repVars, pixVars, mergeVars, optVars, fillVars,
                   paintVars, lineVars, ditherVars, storeVars,
                 rectVars,
                 previewVars,
                 shareVars,
                 buildVars,
                 cellVars,
                 statsVars,
                 dirtyVars,
                 repixVars>>

\* one pass of the outer loop of the filled branch (a whole row of offsets)
CircleFilledRow ==
    /\ cPc = "filled"
    /\ cSt.r <= cArgs.radius
    /\ cSt' = [cells |-> FilledRow(cSt.cells, cArgs.cx, cArgs.cy, cArgs.radius, cSt.r,
                                   -cArgs.radius),
               r |-> cSt.r + 1]
    /\ UNCHANGED <<cArgs, cPc, cResult>>
    /\ UNCHANGED <<nearestVars, cltVars, repVars, pixVars, mergeVars, optVars, fillVars,
                   paintVars, lineVars, ditherVars, storeVars,
                 rectVars,
                 previewVars,
                 shareVars,
                 buildVars,
                 cellVars,
                 statsVars,
                 dirtyVars,
                 repixVars>>

CircleOutlineStep ==
    /\ cPc = "outline"
    /\ cSt.x > cSt.y
    /\ cSt' = MidpointIteration(cSt, cArgs.cx, cArgs.cy)
    /\ UNCHANGED <<cArgs, cPc, cResult>>
    /\ UNCHANGED <<nearestVars, cltVars, repVars, pixVars, mergeVars, optVars, fillVars,
                   paintVars, lineVars, ditherVars, storeVars,
                 rectVars,
                 previewVars,
                 shareVars,
                 buildVars,
                 cellVars,
                 statsVars,
                 dirtyVars,
                 repixVars>>

CircleReturn ==
    /\ \/ cPc = "filled" /\ cSt.r > cArgs.radius
       \/ cPc = "outline" /\ ~(cSt.x > cSt.y)
    /\ cResult' = cSt.cells.result
    /\ cPc' = "done"
    /\ UNCHANGED <<cArgs, cSt>>
    /\ UNCHANGED <<nearestVars, cltVars, repVars, pixVars, mergeVars, optVars, fillVars,
                   paintVars, lineVars, ditherVars, storeVars,
                 rectVars,
                 previewVars,
                 shareVars,
                 buildVars,
                 cellVars,
                 statsVars,
                 dirtyVars,
                 repixVars>>

CircleNext == CircleEnter \/ CircleFilledRow \/ CircleOutlineStep \/ CircleReturn

SpecCircle == CircleInit /\ [][CircleNext]_vars

\* Dithering: one call, any number of dither calls with other palettes,
\* then the first call again.

EntryH1 == Entry("H1", HFFFFFF)

DitherPalIds == { "p1", "p2", "p3" }

\* p1 and p2 hold the same entries in a different order; p3 is shorter.
DitherPalettes ==
    [p \in DitherPalIds |->
        IF p = "p1" THEN <<EntryK0, EntryH1>>
        ELSE IF p = "p2" THEN <<EntryH1, EntryK0>>
        ELSE <<EntryK0>>]

\* grey pixels; alpha 127 is below and 128 at the threshold
DitherPixels == { Px(100, 100, 100, 128), Px(200, 200, 200, 127) }

\* strength 0, 0.5 and 1
Strengths == 0..StrengthDen

DitherOps == { "floydSteinberg", "bayer" }

dither(a, cache, pals) ==
    IF a.op = "bayer" THEN bayerDither(a, cache, pals)
    ELSE floydSteinbergDither(a, cache, pals)

DitherInit ==
    /\ palettes = DitherPalettes
    /\ cltPalette \in {NoPalette, "p2", "p3"}
    /\ cltTable = IF cltPalette = NoPalette THEN NoTable ELSE FilledTable(palettes[cltPalette])
    /\ call = NoCall
    /\ \E W \in 1..MaxDither, H \in 1..MaxDither :
          /\ W * H <= MaxDither
          /\ \E d \in [1..(W * H) -> DitherPixels], p \in DitherPalIds,
                k \in Strengths, op \in DitherOps :
                /\ dArgs = [img |-> [width |-> W, height |-> H, data |-> d],
                            palette |-> p, strength |-> k, op |-> op]
                /\ dData = d
    /\ dPc = "first"
    /\ dFirst = <<>>
    /\ dSecond = <<>>
    /\ dOther = NoPalette
    /\ NearestIdle /\ RepIdle /\ PixIdle /\ MergeIdle /\ OptIdle /\ FillIdle /\ PaintIdle
    /\ LineIdle /\ CircleIdle
    /\ StoreIdle
    /\ RectIdle
    /\ PreviewIdle
    /\ ShareIdle
    /\ BuildIdle
    /\ CellsIdle
    /\ StatsIdle
    /\ DirtyIdle
    /\ RepixIdle

DitherFirst ==
    /\ dPc = "first"
    /\ \E res \in { dither([dArgs EXCEPT !.img.data = dData],
                             [palette |-> cltPalette, table |-> cltTable], palettes) } :
           /\ dFirst' = res.grid
           /\ dData' = res.data
           /\ cltPalette' = res.cache.palette
           /\ cltTable' = res.cache.table
    /\ dPc' = "between"
    /\ UNCHANGED <<dArgs, dSecond, dOther, palettes, call>>
    /\ UNCHANGED <<nearestVars, repVars, pixVars, mergeVars, optVars, fillVars,
                   paintVars, lineVars, circleVars, storeVars,
                 rectVars,
                 previewVars,
                 shareVars,
                 buildVars,
                 cellVars,
                 statsVars,
                 dirtyVars,
                 repixVars>>

DitherOther(p) ==
    /\ dPc = "between"
    /\ \E res \in { dither([dArgs EXCEPT !.img.data = dData, !.palette = p],
                             [palette |-> cltPalette, table |-> cltTable], palettes) } :
           /\ dData' = res.data
           /\ cltPalette' = res.cache.palette
           /\ cltTable' = res.cache.table
    /\ dOther' = p
    /\ UNCHANGED <<dArgs, dPc, dFirst, dSecond, palettes, call>>
    /\ UNCHANGED <<nearestVars, repVars, pixVars, mergeVars, optVars, fillVars,
                   paintVars, lineVars, circleVars, storeVars,
                 rectVars,
                 previewVars,
                 shareVars,
                 buildVars,
                 cellVars,
                 statsVars,
                 dirtyVars,
                 repixVars>>

DitherSecond ==
    /\ dPc = "between"
    /\ \E res \in { dither([dArgs EXCEPT !.img.data = dData],
                             [palette |-> cltPalette, table |-> cltTable], palettes) } :
           /\ dSecond' = res.grid
           /\ dData' = res.data
           /\ cltPalette' = res.cache.palette
           /\ cltTable' = res.cache.table
    /\ dPc' = "done"
    /\ UNCHANGED <<dArgs, dFirst, dOther, palettes, call>>
    /\ UNCHANGED <<nearestVars, repVars, pixVars, mergeVars, optVars, fillVars,
                   paintVars, lineVars, circleVars, storeVars,
                 rectVars,
                 previewVars,
                 shareVars,
                 buildVars,
                 cellVars,
                 statsVars,
                 dirtyVars,
                 repixVars>>

DitherNext ==
    \/ DitherFirst
    \/ \E p \in DitherPalIds : DitherOther(p)
    \/ DitherSecond

SpecDither == DitherInit /\ [][DitherNext]_vars

\* floydSteinbergDither alone, on images of more grey levels.

FsPixels ==
    { Px(100, 100, 100, 255), Px(200, 200, 200, 128), Px(30, 30, 30, 255),
      Px(100, 100, 100, 127) }

FsInit ==
    /\ palettes = DitherPalettes
    /\ cltPalette \in {NoPalette, "p2"}
    /\ cltTable = IF cltPalette = NoPalette THEN NoTable ELSE FilledTable(palettes[cltPalette])
    /\ call = NoCall
    /\ \E W \in 1..MaxDither, H \in 1..MaxDither :
          /\ W * H <= MaxDither
          /\ \E d \in [1..(W * H) -> FsPixels], p \in {"p1", "p3"}, k \in Strengths :
                /\ dArgs = [img |-> [width |-> W, height |-> H, data |-> d],
                            palette |-> p, strength |-> k, op |-> "floydSteinberg"]
                /\ dData = d
    /\ dPc = "first"
    /\ dFirst = <<>>
    /\ dSecond = <<>>
    /\ dOther = NoPalette
    /\ NearestIdle /\ RepIdle /\ PixIdle /\ MergeIdle /\ OptIdle /\ FillIdle /\ PaintIdle
    /\ LineIdle /\ CircleIdle
    /\ StoreIdle
    /\ RectIdle
    /\ PreviewIdle
    /\ ShareIdle
    /\ BuildIdle
    /\ CellsIdle
    /\ StatsIdle
    /\ DirtyIdle
    /\ RepixIdle

SpecFS == FsInit /\ [][DitherFirst]_vars

\* ---- editor store: the handlers that write pixels or gridDimensions ----

\* Largest N and M of the store's grid.
MaxSide == 2

\* The limit option of the undo history.
MaxHistory == 1

Dims(N, M) == [N |-> N, M |-> M]

createEmptyGrid(dims) == [r \in 1..dims.M |-> [c \in 1..dims.N |-> transparentPixel]]

\* The undo middleware around set(): the tracked part of the state before
\* the call ({pixels}) is appended to pastStates, the oldest entry dropped
\* at the limit, and futureStates is emptied.
Recorded(past, pixels) ==
    IF Len(past) >= MaxHistory THEN Append(Tail(past), pixels) ELSE Append(past, pixels)

\* set({pixels, gridDimensions}) on the store st
SetState(st, pixels, dims) ==
    [st EXCEPT !.pixels = pixels, !.dims = dims,
               !.past = Recorded(st.past, st.pixels), !.future = <<>>]

setPixels(st, pixels) == SetState(st, pixels, st.dims)

initGrid(st, dims) == SetState(st, createEmptyGrid(dims), dims)

\* the grid of dims.M rows of dims.N cells that rePixelate computes from a
\* source image; without one it is the empty grid
rePixelate(st, dims, cell, hasSource) ==
    SetState(st,
             IF hasSource THEN [r \in 1..dims.M |-> [c \in 1..dims.N |-> cell]]
             ELSE createEmptyGrid(dims),
             dims)

\* pixels[r]?.[c] ?? {...transparentPixel}
CellOrTransparent(pixels, r, c) ==
    IF CellAt(pixels, r, c) = NoCell THEN transparentPixel ELSE CellAt(pixels, r, c)

Grown(st, newN, newM) ==
    IF newN = st.dims.N /\ newM = st.dims.M THEN st
    ELSE SetState(st,
                  [r \in 1..newM |-> [c \in 1..newN |->
                      CellOrTransparent(st.pixels, r - 1, c - 1)]],
                  Dims(newN, newM))

ensureGridSize(st, minN, minM) == Grown(st, Max(st.dims.N, minN), Max(st.dims.M, minM))

\* brushSize of the store
BrushSize == 1

\* `if (next) current = next` and `if (current !== currentPixels)
\* setPixels(current)` around the brush loop, which for brush size 1 is one
\* paintPixel call with the answer r
CommitPaint(st, r) ==
    IF r.result = NullGrid THEN st ELSE setPixels(st, GridOf(r.heap, r.result))

\* the pencil and eraser branches of applyTool: the store st after the
\* auto-expansion, the pixels and dims the callback read before it
BrushBranch(st, refPixels, refDims, col, row, value) ==
    IF row >= 0 /\ row < refDims.M /\ col >= 0 /\ col < refDims.N
    THEN CommitPaint(st, paintPixel(InputHeap(refPixels), PixelsId, row, col, value))
    ELSE st

ToolBranch(st, refPixels, refDims, col, row, tool, value) ==
    IF tool = "pencil" THEN BrushBranch(st, refPixels, refDims, col, row, value)
    ELSE IF tool = "eraser"
    THEN BrushBranch(st, refPixels, refDims, col, row, transparentPixel)
    ELSE setPixels(st, floodFill(refPixels, refDims.N, refDims.M, row, col, value))

\* In infinite mode applyTool first calls ensureGridSize
NeedsGrowth(st, col, row) ==
    /\ st.mode = "infinite"
    /\ (col + BrushSize + 1 > st.dims.N \/ row + BrushSize + 1 > st.dims.M)

AutoExpanded(st, col, row) ==
    IF NeedsGrowth(st, col, row)
    THEN ensureGridSize(st, Max(st.dims.N, col + BrushSize + 1),
                        Max(st.dims.M, row + BrushSize + 1))
    ELSE st

\* applyTool(col, row, tool): pixelsRef.current and dims are those of the
\* last render, that is of the store when the handler starts
applyTool(st, col, row, tool, value) ==
    ToolBranch(AutoExpanded(st, col, row), st.pixels, st.dims, col, row, tool, value)

\* the end of a shape drag: paintCells on pixelsRef.current, committed when
\* it returned another array
CommitCells(st, r) ==
    IF r.result = PixelsId THEN st ELSE setPixels(st, GridOf(r.heap, r.result))

finishShape(st, cells, value) ==
    CommitCells(st, paintCells(InputHeap(st.pixels), PixelsId, st.dims.N, st.dims.M,
                               cells, value))

\* deleteSelection for the selection cells sel
deleteSelection(st, sel) ==
    IF sel = {} THEN st
    ELSE setPixels(st,
             [r \in DOMAIN st.pixels |-> [c \in DOMAIN st.pixels[r] |->
                 IF Pos(r - 1, c - 1) \in sel THEN transparentPixel
                 ELSE st.pixels[r][c]]])

\* handleApply of the colour optimisation panel for the plan of a target
MergedWith(st, res) ==
    IF res.threw THEN st
    ELSE setPixels(st, applyColorMerge(st.pixels, res.plan.mergeMap, res.plan.mergeKeyMap))

handleApply(st, targetCount) ==
    MergedWith(st, calculateMergePlan(collectColorUsage(st.pixels), targetCount))

\* set({canvasMode: m})
setCanvasMode(st, m) == [SetState(st, st.pixels, st.dims) EXCEPT !.mode = m]

\* undo(): the tracked part {pixels} of the last past state is written back,
\* the current one goes to futureStates
undo(st) ==
    IF st.past = <<>> THEN st
    ELSE [st EXCEPT !.pixels = st.past[Len(st.past)],
                    !.past = SubSeq(st.past, 1, Len(st.past) - 1),
                    !.future = Append(st.future, st.pixels)]

redo(st) ==
    IF st.future = <<>> THEN st
    ELSE [st EXCEPT !.pixels = st.future[Len(st.future)],
                    !.future = SubSeq(st.future, 1, Len(st.future) - 1),
                    !.past = Append(st.past, st.pixels)]

TheStore ==
    [dims |-> sDims, pixels |-> sPixels, mode |-> sMode, past |-> sPast,
     future |-> sFuture]

Becomes(st) ==
    /\ sDims' = st.dims
    /\ sPixels' = st.pixels
    /\ sMode' = st.mode
    /\ sPast' = st.past
    /\ sFuture' = st.future
    /\ UNCHANGED <<nearestVars, cltVars, repVars, pixVars, mergeVars, optVars, fillVars,
                   paintVars, lineVars, circleVars, ditherVars,
                 rectVars,
                 previewVars,
                 shareVars,
                 buildVars,
                 cellVars,
                 statsVars,
                 dirtyVars,
                 repixVars>>

\* the grid has the rows and columns gridDimensions names
Rectangular(pixels, dims) ==
    /\ Len(pixels) = dims.M
    /\ \A r \in 1..Len(pixels) : Len(pixels[r]) = dims.N

\* The handlers are followed up to the first state whose grid has another
\* shape than gridDimensions; such a state is kept as a final state.
Followed == Rectangular(sPixels, sDims)

Sides == 1..MaxSide

StoreCells == { Cell("A", HFF0000, ExtFalse), Cell("B", H0000FF, ExtFalse) }

StorePositions == { Pos(r, c) : r \in 0..(MaxSide - 1), c \in 0..(MaxSide - 1) }

\* the cells of a horizontal line from column 0, which may leave the grid
ShapeCells == { [i \in 1..n |-> Pos(r, i - 1)] : r \in 0..(MaxSide - 1), n \in 1..(MaxSide + 1) }

StoreInit ==
    /\ \E N \in Sides, M \in Sides :
          /\ sDims = Dims(N, M)
          /\ sPixels = createEmptyGrid(Dims(N, M))
    /\ sMode = "fixed"
    /\ sPast = <<>>
    /\ sFuture = <<>>
    /\ NearestIdle /\ CltIdle /\ RepIdle /\ PixIdle /\ MergeIdle /\ OptIdle /\ FillIdle
    /\ PaintIdle /\ LineIdle /\ CircleIdle /\ DitherIdle
    /\ RectIdle
    /\ PreviewIdle
    /\ ShareIdle
    /\ BuildIdle
    /\ CellsIdle
    /\ StatsIdle
    /\ DirtyIdle
    /\ RepixIdle

InitGrid ==
    /\ Followed
    /\ \E N \in Sides, M \in Sides : Becomes(initGrid(TheStore, Dims(N, M)))

RePixelate ==
    /\ Followed
    /\ \E N \in Sides, M \in Sides, cell \in StoreCells, hasSource \in BOOLEAN :
          Becomes(rePixelate(TheStore, Dims(N, M), cell, hasSource))

EnsureGridSize ==
    /\ Followed
    /\ \E minN \in Sides, minM \in Sides : Becomes(ensureGridSize(TheStore, minN, minM))

\* getGridCell yields a cell of the grid, in infinite mode any cell with
\* col, row >= 0; the growth is kept within MaxSide
ApplyTool ==
    /\ Followed
    /\ \E p \in StorePositions, tool \in {"pencil", "eraser", "fill"}, value \in StoreCells :
          /\ \/ (p.col < sDims.N /\ p.row < sDims.M)
             \/ sMode = "infinite"
          /\ NeedsGrowth(TheStore, p.col, p.row) =>
                (p.col + BrushSize + 1 <= MaxSide /\ p.row + BrushSize + 1 <= MaxSide)
          /\ Becomes(applyTool(TheStore, p.col, p.row, tool, value))

FinishShape ==
    /\ Followed
    /\ \E cells \in ShapeCells, value \in StoreCells :
          Becomes(finishShape(TheStore, cells, value))

DeleteSelection ==
    /\ Followed
    /\ \E sel \in SUBSET StorePositions : Becomes(deleteSelection(TheStore, sel))

ColorMerge ==
    /\ Followed
    /\ Becomes(handleApply(TheStore, 1))

SetCanvasMode ==
    /\ Followed
    /\ \E m \in {"fixed", "infinite"} : Becomes(setCanvasMode(TheStore, m))

Undo ==
    /\ Followed
    /\ Becomes(undo(TheStore))

Redo ==
    /\ Followed
    /\ Becomes(redo(TheStore))

StoreNext ==
    \/ InitGrid \/ RePixelate \/ EnsureGridSize \/ ApplyTool \/ FinishShape
    \/ DeleteSelection \/ ColorMerge \/ SetCanvasMode \/ Undo \/ Redo

SpecStore == StoreInit /\ [][StoreNext]_vars

\* ---- calculatePixelGrid's source rectangles: the sizes drawn at Init ----

\* Largest image width and height, and largest N and M, of this check.
MaxSpan == 5

\* The source pixels the sampler reads for cell (column i, row j): the
\* rectangle sx, sy, w, h handed to cellRepresentativeColor, walked by its
\* two loops.
CellReads(imgWidth, imgHeight, N, M, i, j) ==
    LET rc == CellRect(imgWidth, imgHeight, N, M, i, j)
        co == RectCoords(rc.sx, rc.sy, rc.w, rc.h)
    IN  { co[k] : k \in DOMAIN co }

RectInit ==
    /\ rcArgs \in [W : 1..MaxSpan, H : 1..MaxSpan, N : 1..MaxSpan, M : 1..MaxSpan]
    /\ rcPc = "call"
    /\ rcReads = <<>>
    /\ NearestIdle /\ CltIdle /\ RepIdle /\ PixIdle /\ MergeIdle /\ OptIdle /\ FillIdle
    /\ PaintIdle /\ LineIdle /\ CircleIdle /\ DitherIdle
    /\ StoreIdle
    /\ PreviewIdle
    /\ ShareIdle
    /\ BuildIdle
    /\ CellsIdle
    /\ StatsIdle
    /\ DirtyIdle
    /\ RepixIdle

\* the double loop over the cells, j outer and i inner
RectCall ==
    /\ rcPc = "call"
    /\ rcReads' = [j \in 0..(rcArgs.M - 1) |-> [i \in 0..(rcArgs.N - 1) |->
                      CellReads(rcArgs.W, rcArgs.H, rcArgs.N, rcArgs.M, i, j)]]
    /\ rcPc' = "done"
    /\ UNCHANGED rcArgs
    /\ UNCHANGED <<nearestVars, cltVars, repVars, pixVars, mergeVars, optVars, fillVars,
                 paintVars, lineVars, circleVars, ditherVars, storeVars,
                 previewVars,
                 shareVars,
                 buildVars,
                 cellVars,
                 statsVars,
                 dirtyVars,
                 repixVars>>

SpecRect == RectInit /\ [][RectCall]_vars

\* ---- getMergePreview, then calculateMergePlan, on the same usage array ----

PreviewInit ==
    /\ vHeap \in UsageLists
    /\ vUsage = [k \in 1..Len(vHeap) |-> k]
    /\ vBefore = vHeap
    /\ vTarget \in 0..MaxUsage
    /\ vPc = "call"
    /\ vPreview = <<>>
    /\ vPlan = <<>>
    /\ NearestIdle /\ CltIdle /\ RepIdle /\ PixIdle /\ MergeIdle /\ OptIdle /\ FillIdle
    /\ PaintIdle /\ LineIdle /\ CircleIdle /\ DitherIdle
    /\ StoreIdle
    /\ RectIdle
    /\ ShareIdle
    /\ BuildIdle
    /\ CellsIdle
    /\ StatsIdle
    /\ DirtyIdle
    /\ RepixIdle

PreviewCall ==
    /\ vPc = "call"
    /\ \E res \in { getMergePreview(vHeap, vUsage, vTarget) } :
          /\ vPreview' = [threw |-> res.threw, previews |-> res.previews]
          /\ vHeap' = res.heap
    /\ vPc' = "previewed"
    /\ UNCHANGED <<vUsage, vBefore, vTarget, vPlan>>
    /\ UNCHANGED <<nearestVars, cltVars, repVars, pixVars, mergeVars, optVars, fillVars,
                 paintVars, lineVars, circleVars, ditherVars, storeVars,
                 rectVars,
                 shareVars,
                 buildVars,
                 cellVars,
                 statsVars,
                 dirtyVars,
                 repixVars>>

PlanCall ==
    /\ vPc = "previewed"
    /\ \E res \in { PlanOn(vHeap, vUsage, vTarget) } :
          /\ vPlan' = [threw |-> res.threw, plan |-> res.plan, merges |-> res.merges]
          /\ vHeap' = res.heap
    /\ vPc' = "done"
    /\ UNCHANGED <<vUsage, vBefore, vTarget, vPreview>>
    /\ UNCHANGED <<nearestVars, cltVars, repVars, pixVars, mergeVars, optVars, fillVars,
                 paintVars, lineVars, circleVars, ditherVars, storeVars,
                 rectVars,
                 shareVars,
                 buildVars,
                 cellVars,
                 statsVars,
                 dirtyVars,
                 repixVars>>

PreviewNext == PreviewCall \/ PlanCall

SpecPreview == PreviewInit /\ [][PreviewNext]_vars

\* ---- replaceColor, applyColorMerge, floodFill and floodFillErase on a ----
\* ---- grid allocated at Init, one call

\* a cell as calculatePixelGrid writes it (here with a lower-case hex), two
\* cells as the tools write them, and the transparent sentinel
ShareCells ==
    { Cell("A", Hff0000, ExtUndefined), Cell("A", HFF0000, ExtFalse),
      Cell("W", HFFFFFF, ExtFalse), transparentPixel }

ShareSources == { HFF0000, Hff0000, HFFFFFF, H0000FF }

ShareTargets == { Cell("B", H0000FF, ExtFalse), Cell("W", HFFFFFF, ExtUndefined) }

MergePlanOf(mergeMap, mergeKeyMap) == [mergeMap |-> mergeMap, mergeKeyMap |-> mergeKeyMap]

\* plans as calculateMergePlan returns them: the empty plan, one colour
\* merged into another, two colours merged into a third
SharePlans ==
    { MergePlanOf(<<>>, <<>>),
      MergePlanOf(SetEntry(<<>>, HFF0000, HFFFFFF), SetEntry(<<>>, HFF0000, "W")),
      MergePlanOf(SetEntry(<<>>, HFFFFFF, HFF0000), SetEntry(<<>>, HFFFFFF, "A")),
      MergePlanOf(SetEntry(<<>>, H0000FF, HFFFFFF), SetEntry(<<>>, H0000FF, "W")),
      MergePlanOf(SetEntry(SetEntry(<<>>, HFF0000, H0000FF), HFFFFFF, H0000FF),
                  SetEntry(SetEntry(<<>>, HFF0000, "B"), HFFFFFF, "B")) }

ShareFillValues == { Cell("B", H0000FF, ExtFalse), Cell("A", HFF0000, ExtFalse), transparentPixel }

ShareInit ==
    /\ \E M \in 1..MaxCells, N \in 1..MaxCells :
          /\ M * N <= MaxCells
          /\ \E pixels \in [1..M -> [1..N -> ShareCells]] :
                /\ hArgs = [pixels |-> pixels, N |-> N, M |-> M]
                /\ hHeap = InputHeap(pixels)
    /\ hOp = <<>>
    /\ hPc = "call"
    /\ hResult = NullGrid
    /\ hCount = 0
    /\ NearestIdle /\ CltIdle /\ RepIdle /\ PixIdle /\ MergeIdle /\ OptIdle /\ FillIdle
    /\ PaintIdle /\ LineIdle /\ CircleIdle /\ DitherIdle
    /\ StoreIdle
    /\ RectIdle
    /\ PreviewIdle
    /\ BuildIdle
    /\ CellsIdle
    /\ StatsIdle
    /\ DirtyIdle
    /\ RepixIdle

ReplaceColorCall ==
    /\ hPc = "call"
    /\ \E sourceHex \in ShareSources, target \in ShareTargets :
          \E res \in { replaceColor(hHeap, PixelsId, hArgs.N, hArgs.M, sourceHex, target) } :
              /\ hOp' = [op |-> "replaceColor", sourceHex |-> sourceHex, target |-> target]
              /\ hHeap' = res.heap
              /\ hResult' = res.result
              /\ hCount' = res.count
    /\ hPc' = "done"
    /\ UNCHANGED hArgs
    /\ UNCHANGED <<nearestVars, cltVars, repVars, pixVars, mergeVars, optVars, fillVars,
                 paintVars, lineVars, circleVars, ditherVars, storeVars,
                 rectVars, previewVars,
                 buildVars,
                 cellVars,
                 statsVars,
                 dirtyVars,
                 repixVars>>

ApplyColorMergeCall ==
    /\ hPc = "call"
    /\ \E plan \in SharePlans :
          \E res \in { applyColorMergeRows(hHeap, PixelsId, plan.mergeMap, plan.mergeKeyMap) } :
              /\ hOp' = [op |-> "applyColorMerge", plan |-> plan]
              /\ hHeap' = res.heap
              /\ hResult' = res.result
    /\ hPc' = "done"
    /\ UNCHANGED <<hArgs, hCount>>
    /\ UNCHANGED <<nearestVars, cltVars, repVars, pixVars, mergeVars, optVars, fillVars,
                 paintVars, lineVars, circleVars, ditherVars, storeVars,
                 rectVars, previewVars,
                 buildVars,
                 cellVars,
                 statsVars,
                 dirtyVars,
                 repixVars>>

FloodFillRowsCall ==
    /\ hPc = "call"
    /\ \E row \in 0..(hArgs.M - 1), col \in 0..(hArgs.N - 1), fillValue \in ShareFillValues :
          \E res \in { floodFillRows(hHeap, PixelsId, hArgs.N, hArgs.M, row, col, fillValue) } :
              /\ hOp' = [op |-> "floodFill", row |-> row, col |-> col, fillValue |-> fillValue]
              /\ hHeap' = res.heap
              /\ hResult' = res.result
    /\ hPc' = "done"
    /\ UNCHANGED <<hArgs, hCount>>
    /\ UNCHANGED <<nearestVars, cltVars, repVars, pixVars, mergeVars, optVars, fillVars,
                 paintVars, lineVars, circleVars, ditherVars, storeVars,
                 rectVars, previewVars,
                 buildVars,
                 cellVars,
                 statsVars,
                 dirtyVars,
                 repixVars>>

FloodFillEraseRowsCall ==
    /\ hPc = "call"
    /\ \E row \in 0..(hArgs.M - 1), col \in 0..(hArgs.N - 1), targetKey \in {"A", "W"} :
          \E res \in { floodFillEraseRows(hHeap, PixelsId, hArgs.N, hArgs.M, row, col,
                                          targetKey) } :
              /\ hOp' = [op |-> "floodFillErase", row |-> row, col |-> col,
                         targetKey |-> targetKey]
              /\ hHeap' = res.heap
              /\ hResult' = res.result
    /\ hPc' = "done"
    /\ UNCHANGED <<hArgs, hCount>>
    /\ UNCHANGED <<nearestVars, cltVars, repVars, pixVars, mergeVars, optVars, fillVars,
                 paintVars, lineVars, circleVars, ditherVars, storeVars,
                 rectVars, previewVars,
                 buildVars,
                 cellVars,
                 statsVars,
                 dirtyVars,
                 repixVars>>

ShareNext ==
    ReplaceColorCall \/ ApplyColorMergeCall \/ FloodFillRowsCall \/ FloodFillEraseRowsCall

SpecShare == ShareInit /\ [][ShareNext]_vars

\* ---- buildColorLookupTable, one statement per step ----

\* a bucket of `new Array(...)` not yet assigned (undefined); the filled
\* buckets hold positions, which are 0 or more
Hole == -1

\* `_cltTable = new Array(CLT_SIZE * CLT_SIZE * CLT_SIZE)`
EmptyTable == [idx \in ModelBuckets |-> Hole]

\* the buckets in the order of the loops over ri, gi, bi
FirstBucket == CHOOSE idx \in ModelBuckets : \A other \in ModelBuckets : idx <= other

LastBucket == CHOOSE idx \in ModelBuckets : \A other \in ModelBuckets : idx >= other

BucketAfter(idx) ==
    CHOOSE nxt \in ModelBuckets :
        nxt > idx /\ \A other \in ModelBuckets : other > idx => nxt <= other

BuildInit ==
    /\ palettes \in [PalIds -> SeqsUpTo(CltEntries, MaxCltPal)]
    /\ cltPalette = NoPalette
    /\ cltTable = NoTable
    /\ call = NoCall
    /\ bPc = "idle"
    /\ bNext = 0
    /\ bQuery = NoRgb
    /\ NearestIdle /\ RepIdle /\ PixIdle /\ MergeIdle /\ OptIdle /\ FillIdle /\ PaintIdle
    /\ LineIdle /\ CircleIdle /\ DitherIdle
    /\ StoreIdle
    /\ RectIdle
    /\ PreviewIdle
    /\ ShareIdle
    /\ CellsIdle
    /\ StatsIdle
    /\ DirtyIdle
    /\ RepixIdle

\* buildColorLookupTable(p) up to the loop: the early return, or the two
\* assignments to _cltPalette and _cltTable
BuildEnter(p) ==
    /\ bPc = "idle"
    /\ IF AlreadyBuilt(cltPalette, cltTable, p, palettes)
       THEN /\ call' = [op |-> "build", pal |-> p, target |-> NoRgb, idx |-> 0,
                        rebuilt |-> FALSE, cachedBefore |-> cltPalette]
            /\ UNCHANGED <<cltPalette, cltTable, bPc, bNext, bQuery>>
       ELSE /\ cltPalette' = p
            /\ cltTable' = EmptyTable
            /\ bPc' = "filling"
            /\ bNext' = FirstBucket
            /\ call' = [op |-> "build", pal |-> p, target |-> NoRgb, idx |-> 0,
                        rebuilt |-> TRUE, cachedBefore |-> cltPalette]
            /\ UNCHANGED bQuery
    /\ UNCHANGED palettes
    /\ UNCHANGED <<nearestVars, repVars, pixVars, mergeVars, optVars, fillVars,
                 paintVars, lineVars, circleVars, ditherVars, storeVars,
                 rectVars, previewVars, shareVars,
                 cellVars,
                 statsVars,
                 dirtyVars,
                 repixVars>>

\* findClosestPaletteColorFast(t, p) up to the loop of the rebuild it
\* calls, or as a whole when the table is current
FastEnter(t, p) ==
    /\ bPc = "idle"
    /\ IF Stale(cltPalette, cltTable, p) /\ ~AlreadyBuilt(cltPalette, cltTable, p, palettes)
       THEN /\ cltPalette' = p
            /\ cltTable' = EmptyTable
            /\ bPc' = "filling"
            /\ bNext' = FirstBucket
            /\ bQuery' = t
            /\ call' = [op |-> "fast", pal |-> p, target |-> t, idx |-> 0,
                        rebuilt |-> TRUE, cachedBefore |-> cltPalette]
       ELSE /\ call' = [op |-> "fast", pal |-> p, target |-> t,
                        idx |-> cltTable[TargetIndex(t)],
                        rebuilt |-> FALSE, cachedBefore |-> cltPalette]
            /\ UNCHANGED <<cltPalette, cltTable, bPc, bNext, bQuery>>
    /\ UNCHANGED palettes
    /\ UNCHANGED <<nearestVars, repVars, pixVars, mergeVars, optVars, fillVars,
                 paintVars, lineVars, circleVars, ditherVars, storeVars,
                 rectVars, previewVars, shareVars,
                 cellVars,
                 statsVars,
                 dirtyVars,
                 repixVars>>

\* one pass of the innermost loop body: `_cltTable[idx] = ...`; after the
\* last one the call returns, and a fast query reads its bucket
BuildFill ==
    /\ bPc = "filling"
    /\ cltTable' = [cltTable EXCEPT ![bNext] =
                       findClosestIndex(ProbeOfIndex(bNext), palettes[cltPalette])]
    /\ IF bNext = LastBucket
       THEN /\ bPc' = "idle"
            /\ bNext' = 0
            /\ bQuery' = NoRgb
            /\ call' = IF bQuery = NoRgb THEN call
                       ELSE [call EXCEPT !.idx = cltTable'[TargetIndex(bQuery)]]
       ELSE /\ bNext' = BucketAfter(bNext)
            /\ UNCHANGED <<bPc, bQuery, call>>
    /\ UNCHANGED <<palettes, cltPalette>>
    /\ UNCHANGED <<nearestVars, repVars, pixVars, mergeVars, optVars, fillVars,
                 paintVars, lineVars, circleVars, ditherVars, storeVars,
                 rectVars, previewVars, shareVars,
                 cellVars,
                 statsVars,
                 dirtyVars,
                 repixVars>>

BuildNext ==
    \/ \E p \in PalIds : BuildEnter(p)
    \/ \E p \in PalIds, t \in FastTargets : FastEnter(t, p)
    \/ BuildFill

SpecBuild == BuildInit /\ [][BuildNext]_vars

\* ---- a grid under any sequence of editing calls ----

\* an opaque pixel nearest to K0, one nearest to E16, a transparent one
CellPixels == { Px(0, 0, 0, 255), Px(250, 10, 10, 255), Px(0, 0, 0, 0) }

\* the grids calculatePixelGrid returns for the images of one pixel per cell
SampledGrids(N, M) ==
    { calculatePixelGrid([img |-> [width |-> N, height |-> M, data |-> d],
                          N |-> N, M |-> M, palette |-> "p1", mode |-> "dominant",
                          fallback |-> EntryK0],
                         [palette |-> NoPalette, table |-> NoTable], PixPalettes).grid :
        d \in [1..(N * M) -> CellPixels] }

\* fill values: built from a palette entry with isExternal false, or the
\* transparent sentinel
CellValues ==
    { Cell(EntryK0.key, EntryK0.hex, ExtFalse), Cell(EntryE16.key, EntryE16.hex, ExtFalse),
      transparentPixel }

CellsWidth == Len(gGrid[1])

CellsHeight == Len(gGrid)

CellsPositions == { Pos(r, c) : r \in 0..(CellsHeight - 1), c \in 0..(CellsWidth - 1) }

\* the cells of a horizontal line from column 0, which may leave the grid
CellsLines == { [i \in 1..n |-> Pos(r, i - 1)] : r \in 0..(CellsHeight - 1), n \in 1..(CellsWidth + 1) }

\* what the caller holds after a paint: the grid returned, or the grid it
\* had when null (resp. the argument) is returned
GridAfter(grid, res) == IF res.result = NullGrid THEN grid ELSE GridOf(res.heap, res.result)

CellsInit ==
    /\ \E M \in 1..MaxCells, N \in 1..MaxCells :
          /\ M * N <= MaxCells
          /\ gGrid \in SampledGrids(N, M) \cup { createEmptyGrid(Dims(N, M)) }
    /\ gLast = "none"
    /\ NearestIdle /\ CltIdle /\ RepIdle /\ PixIdle /\ MergeIdle /\ OptIdle /\ FillIdle
    /\ PaintIdle /\ LineIdle /\ CircleIdle /\ DitherIdle
    /\ StoreIdle
    /\ RectIdle
    /\ PreviewIdle
    /\ ShareIdle
    /\ BuildIdle
    /\ StatsIdle
    /\ DirtyIdle
    /\ RepixIdle

CellsFloodFill ==
    /\ \E p \in CellsPositions, value \in CellValues :
          gGrid' = floodFill(gGrid, CellsWidth, CellsHeight, p.row, p.col, value)
    /\ gLast' = "floodFill"
    /\ UNCHANGED <<nearestVars, cltVars, repVars, pixVars, mergeVars, optVars, fillVars,
                 paintVars, lineVars, circleVars, ditherVars, storeVars,
                 rectVars, previewVars, shareVars, buildVars,
                 statsVars,
                 dirtyVars,
                 repixVars>>

CellsFloodFillErase ==
    /\ \E p \in CellsPositions :
          gGrid' = floodFillErase(gGrid, CellsWidth, CellsHeight, p.row, p.col,
                                  gGrid[p.row + 1][p.col + 1].key)
    /\ gLast' = "floodFillErase"
    /\ UNCHANGED <<nearestVars, cltVars, repVars, pixVars, mergeVars, optVars, fillVars,
                 paintVars, lineVars, circleVars, ditherVars, storeVars,
                 rectVars, previewVars, shareVars, buildVars,
                 statsVars,
                 dirtyVars,
                 repixVars>>

CellsReplaceColor ==
    /\ \E sourceHex \in { EntryK0.hex, EntryE16.hex, HFFFFFF }, target \in CellValues :
          \E res \in { replaceColor(InputHeap(gGrid), PixelsId, CellsWidth, CellsHeight,
                                    sourceHex, target) } :
              gGrid' = GridAfter(gGrid, res)
    /\ gLast' = "replaceColor"
    /\ UNCHANGED <<nearestVars, cltVars, repVars, pixVars, mergeVars, optVars, fillVars,
                 paintVars, lineVars, circleVars, ditherVars, storeVars,
                 rectVars, previewVars, shareVars, buildVars,
                 statsVars,
                 dirtyVars,
                 repixVars>>

CellsPaintPixel ==
    /\ \E p \in CellsPositions, value \in CellValues :
          \E res \in { paintPixel(InputHeap(gGrid), PixelsId, p.row, p.col, value) } :
              gGrid' = GridAfter(gGrid, res)
    /\ gLast' = "paintPixel"
    /\ UNCHANGED <<nearestVars, cltVars, repVars, pixVars, mergeVars, optVars, fillVars,
                 paintVars, lineVars, circleVars, ditherVars, storeVars,
                 rectVars, previewVars, shareVars, buildVars,
                 statsVars,
                 dirtyVars,
                 repixVars>>

CellsPaintCells ==
    /\ \E cells \in CellsLines, value \in CellValues :
          \E res \in { paintCells(InputHeap(gGrid), PixelsId, CellsWidth, CellsHeight,
                                  cells, value) } :
              gGrid' = GridAfter(gGrid, res)
    /\ gLast' = "paintCells"
    /\ UNCHANGED <<nearestVars, cltVars, repVars, pixVars, mergeVars, optVars, fillVars,
                 paintVars, lineVars, circleVars, ditherVars, storeVars,
                 rectVars, previewVars, shareVars, buildVars,
                 statsVars,
                 dirtyVars,
                 repixVars>>

\* applyColorMerge with the plan of calculateMergePlan for the grid's usage
CellsApplyColorMerge ==
    /\ \E targetCount \in 1..2 :
          \E r \in { calculateMergePlan(collectColorUsage(gGrid), targetCount) } :
              /\ ~r.threw
              /\ gGrid' = applyColorMerge(gGrid, r.plan.mergeMap, r.plan.mergeKeyMap)
    /\ gLast' = "applyColorMerge"
    /\ UNCHANGED <<nearestVars, cltVars, repVars, pixVars, mergeVars, optVars, fillVars,
                 paintVars, lineVars, circleVars, ditherVars, storeVars,
                 rectVars, previewVars, shareVars, buildVars,
                 statsVars,
                 dirtyVars,
                 repixVars>>

CellsNext ==
    \/ CellsFloodFill \/ CellsFloodFillErase \/ CellsReplaceColor
    \/ CellsPaintPixel \/ CellsPaintCells \/ CellsApplyColorMerge

SpecCells == CellsInit /\ [][CellsNext]_vars

\* ---- getColorStats and its cache, the grids held by reference ----

\* null for _cachedStatsPixelsRef
NoRef == 0

\* null for _cachedColorStats; a cached array `stats` is << stats >>
NoStats == <<>>

\* the test that ignores the array the cache was computed for
CacheHitAnyRef(cachedStats, cachedRef, pixels) == cachedStats # NoStats

\* _cachedColorStats && _cachedStatsPixelsRef === pixels
CacheHit(cachedStats, cachedRef, pixels) == cachedStats # NoStats /\ cachedRef = pixels

\* the loop body of getColorStats for one cell: the Map `counts` as the
\* sequence of its values in insertion order, and `total`
CountCell(acc, cell) ==
    IF NotABead(cell) THEN acc
    ELSE LET hex == toUpperCase(cell.color)
             counts == acc.counts
         IN  [counts |->
                 IF \E k \in 1..Len(counts) : counts[k].hex = hex
                 THEN [k \in 1..Len(counts) |->
                          IF counts[k].hex = hex
                          THEN [counts[k] EXCEPT !.count = @ + 1]
                          ELSE counts[k]]
                 ELSE Append(counts, [hex |-> hex, key |-> cell.key, count |-> 1]),
              total |-> acc.total + 1]

RECURSIVE CountFrom(_, _, _)
CountFrom(cells, k, acc) ==
    IF k > Len(cells) THEN acc ELSE CountFrom(cells, k + 1, CountCell(acc, cells[k]))

\* percentage: (c.count / total) * 100 as the fraction << numerator,
\* denominator >>, 0 as << 0, 1 >>
WithPercentage(acc) ==
    [k \in 1..Len(acc.counts) |->
        [hex |-> acc.counts[k].hex, key |-> acc.counts[k].key,
         count |-> acc.counts[k].count,
         percentage |-> IF acc.total > 0 THEN << acc.counts[k].count * 100, acc.total >>
                        ELSE << 0, 1 >>]]

\* getColorStats() on the store st whose arrays are in heap: the store and
\* the cache after the call, the array returned, whether the grid was counted
getColorStats(st, heap, cachedStats, cachedRef) ==
    IF CacheHit(cachedStats, cachedRef, st.pixels)
    THEN [st |-> st, cachedStats |-> cachedStats, cachedRef |-> cachedRef,
          returned |-> cachedStats[1], recounted |-> FALSE]
    ELSE LET stats == WithPercentage(CountFrom(Flatten(heap[st.pixels]), 1,
                                               [counts |-> <<>>, total |-> 0]))
         IN  [st |-> SetState(st, st.pixels, st.dims), cachedStats |-> << stats >>,
              cachedRef |-> st.pixels, returned |-> stats, recounted |-> TRUE]

\* The arrays are named 1, 2, ...; an array nothing refers to any more is
\* dropped and its name is free for the next array created.
Refs == 1..(MaxHistory + 3)

NoGrid == <<>>

StatsLive(st, cachedRef) ==
    ({ st.pixels, cachedRef }
        \cup { st.past[i] : i \in DOMAIN st.past }
        \cup { st.future[i] : i \in DOMAIN st.future }) \ { NoRef }

FreeRef(live) == CHOOSE id \in Refs \ live : \A other \in Refs \ live : id <= other

\* the state after a handler: the store, the arrays, the cache; the answer
\* of getColorStats is kept for the state after the call only
StatsBecomes(st, heap, cachedStats, cachedRef) ==
    /\ tStore' = st
    /\ tHeap' = [id \in Refs |->
                    IF id \in StatsLive(st, cachedRef) THEN heap[id] ELSE NoGrid]
    /\ tCachedColorStats' = cachedStats
    /\ tCachedStatsPixelsRef' = cachedRef
    /\ tReturned' = <<>>
    /\ tRecounted' = FALSE
    /\ tSameRef' = FALSE
    /\ tUnchanged' = (tUnchanged /\ st.pixels = tStore.pixels)
    /\ UNCHANGED <<nearestVars, cltVars, repVars, pixVars, mergeVars, optVars, fillVars,
                   paintVars, lineVars, circleVars, ditherVars, storeVars,
                   rectVars, previewVars, shareVars, buildVars, cellVars,
                 dirtyVars,
                 repixVars>>

\* setPixels(grid) with an array just created
SetNewPixels(grid) ==
    LET id == FreeRef(StatsLive(tStore, tCachedStatsPixelsRef))
    IN  StatsBecomes(setPixels(tStore, id), [tHeap EXCEPT ![id] = grid],
                     tCachedColorStats, tCachedStatsPixelsRef)

\* setPixels(pixels) with the array the store holds
SetSamePixels ==
    StatsBecomes(setPixels(tStore, tStore.pixels), tHeap,
                 tCachedColorStats, tCachedStatsPixelsRef)

NoSet == StatsBecomes(tStore, tHeap, tCachedColorStats, tCachedStatsPixelsRef)

StatsGrid == tHeap[tStore.pixels]

StatsPositions == { Pos(0, c) : c \in 0..1 }

\* the grid of a project file: a lower-case hex, a cell without the flag
LoadedGrid == << << Cell("A", Hff0000, ExtFalse), Cell("B", H0000FF, ExtUndefined) >> >>

\* the grid of an import, as calculatePixelGrid writes it
ImportedGrid == << << Cell("B", H0000FF, ExtUndefined), Cell("B", H0000FF, ExtUndefined) >> >>

\* the values of the pencil and the eraser, and of the fill tool
StatsBrushValues == { Cell("A", HFF0000, ExtFalse), transparentPixel }

StatsFillValues == { Cell("B", H0000FF, ExtFalse) }

StatsInit ==
    /\ tStore = [dims |-> Dims(2, 1), pixels |-> 1, mode |-> "fixed",
                 past |-> <<>>, future |-> <<>>]
    /\ tHeap = [id \in Refs |-> IF id = 1 THEN createEmptyGrid(Dims(2, 1)) ELSE NoGrid]
    /\ tCachedColorStats = NoStats
    /\ tCachedStatsPixelsRef = NoRef
    /\ tReturned = <<>>
    /\ tRecounted = FALSE
    /\ tSameRef = FALSE
    /\ tUnchanged = FALSE
    /\ tLast = "none"
    /\ NearestIdle /\ CltIdle /\ RepIdle /\ PixIdle /\ MergeIdle /\ OptIdle /\ FillIdle
    /\ PaintIdle /\ LineIdle /\ CircleIdle /\ DitherIdle
    /\ StoreIdle
    /\ RectIdle
    /\ PreviewIdle
    /\ ShareIdle
    /\ BuildIdle
    /\ CellsIdle
    /\ DirtyIdle
    /\ RepixIdle

\* the pencil and the eraser: paintPixel, committed when it returned an array
StatsPaint ==
    /\ tLast' = "handler"
    /\ \E p \in StatsPositions, value \in StatsBrushValues :
          \E r \in { paintPixel(InputHeap(StatsGrid), PixelsId, p.row, p.col, value) } :
              IF r.result = NullGrid THEN NoSet
              ELSE SetNewPixels(GridOf(r.heap, r.result))

\* the fill tool: setPixels(floodFill(...)), which returns its argument or a
\* copy; followed on the grids that have the shape of gridDimensions
StatsFill ==
    /\ Rectangular(StatsGrid, tStore.dims)
    /\ tLast' = "handler"
    /\ \E p \in StatsPositions, value \in StatsFillValues :
          IF floodFillReturns(StatsGrid, p.row, p.col, value) = "pixels"
          THEN SetSamePixels
          ELSE SetNewPixels(floodFill(StatsGrid, tStore.dims.N, tStore.dims.M,
                                      p.row, p.col, value))

\* handleApply of the colour optimisation panel: applyColorMerge returns its
\* argument for an empty plan
StatsColorMerge ==
    /\ tLast' = "handler"
    /\ \E res \in { calculateMergePlan(collectColorUsage(StatsGrid), 1) } :
          /\ ~res.threw
          /\ IF res.plan.mergeMap = <<>> THEN SetSamePixels
             ELSE SetNewPixels(applyColorMerge(StatsGrid, res.plan.mergeMap,
                                               res.plan.mergeKeyMap))

\* deleteSelection: a copy of the grid with the selected cells cleared
StatsDeleteSelection ==
    /\ tLast' = "handler"
    /\ \E sel \in (SUBSET StatsPositions) \ { {} } :
          SetNewPixels([r \in DOMAIN StatsGrid |-> [c \in DOMAIN StatsGrid[r] |->
                           IF Pos(r - 1, c - 1) \in sel THEN transparentPixel
                           ELSE StatsGrid[r][c]]])

StatsInitGrid ==
    /\ tLast' = "handler"
    /\ LET id == FreeRef(StatsLive(tStore, tCachedStatsPixelsRef))
       IN  StatsBecomes(SetState(tStore, id, Dims(2, 1)),
                        [tHeap EXCEPT ![id] = createEmptyGrid(Dims(2, 1))],
                        tCachedColorStats, tCachedStatsPixelsRef)

\* the import dialogue in fixed mode: setPixels(resultPixels)
StatsImport ==
    /\ tLast' = "handler"
    /\ SetNewPixels(ImportedGrid)

StatsUndo ==
    /\ tLast' = "handler"
    /\ StatsBecomes(undo(tStore), tHeap, tCachedColorStats, tCachedStatsPixelsRef)

StatsRedo ==
    /\ tLast' = "handler"
    /\ StatsBecomes(redo(tStore), tHeap, tCachedColorStats, tCachedStatsPixelsRef)

\* loadProjectData: the file's grid and dimensions, the cache reset, the
\* history cleared
StatsLoadProject ==
    /\ tLast' = "handler"
    /\ LET id == FreeRef(StatsLive(tStore, tCachedStatsPixelsRef))
       IN  StatsBecomes([tStore EXCEPT !.pixels = id, !.dims = Dims(2, 1),
                                       !.past = <<>>, !.future = <<>>],
                        [tHeap EXCEPT ![id] = LoadedGrid], NoStats, NoRef)

GetColorStats ==
    /\ tLast' = "getColorStats"
    /\ \E res \in { getColorStats(tStore, tHeap, tCachedColorStats, tCachedStatsPixelsRef) } :
        /\ tStore' = res.st
        /\ tCachedColorStats' = res.cachedStats
        /\ tCachedStatsPixelsRef' = res.cachedRef
        /\ tReturned' = res.returned
        /\ tRecounted' = res.recounted
        /\ tSameRef' = tUnchanged
        /\ tUnchanged' = TRUE
        /\ tHeap' = [id \in Refs |->
                        IF id \in StatsLive(res.st, res.cachedRef)
                        THEN tHeap[id] ELSE NoGrid]
        /\ UNCHANGED <<nearestVars, cltVars, repVars, pixVars, mergeVars, optVars, fillVars,
                   paintVars, lineVars, circleVars, ditherVars, storeVars,
                   rectVars, previewVars, shareVars, buildVars, cellVars,
                 dirtyVars,
                 repixVars>>

StatsNext ==
    \/ StatsPaint \/ StatsFill \/ StatsColorMerge \/ StatsDeleteSelection
    \/ StatsInitGrid \/ StatsImport \/ StatsUndo \/ StatsRedo \/ StatsLoadProject
    \/ GetColorStats

SpecStats == StatsInit /\ [][StatsNext]_vars

\* ---- isDirty and the dirty tracker ----

\* the fields useDirtyTracking watches
ProjectFields ==
    { "pixels", "gridDimensions", "gridType", "colorSystem", "maxColors",
      "projectName", "canvasMode", "lockedColors" }

\* The values of a field are told apart by !== only: 0 is the value at
\* start-up, FieldValues the values a field can take.
FieldValues == 0..1

\* the watched fields of a store state
ProjectOf(state) == state.project

\* state.pixels !== prevPixels || ... || state.lockedColors !== prevLockedColors
Changed(state, prev) == \E f \in ProjectFields : state.project[f] # prev[f]

\* The subscriber of useDirtyTracking, called with the state after a set():
\* the state and the prev values when it returns. Its markDirty() is a
\* set(), which calls the subscriber again before the prev values are
\* updated, and so on until the stack is exhausted.
Subscriber(state, prev) ==
    IF ~state.isDirty
    THEN [state |-> state, prev |-> ProjectOf(state), overflow |-> FALSE]
    ELSE IF Changed(state, prev)
    THEN [state |-> state, prev |-> prev, overflow |-> TRUE]
    ELSE [state |-> state, prev |-> ProjectOf(state), overflow |-> FALSE]

\* set(partial) followed by the subscriber
DirtySet(state, unsaved) ==
    \E res \in { Subscriber(state, dPrev) } :
        /\ dState' = res.state
        /\ dPrev' = res.prev
        /\ dOverflow' = res.overflow
        /\ dUnsaved' = unsaved
    /\ UNCHANGED <<nearestVars, cltVars, repVars, pixVars, mergeVars, optVars, fillVars,
                   paintVars, lineVars, circleVars, ditherVars, storeVars,
                   rectVars, previewVars, shareVars, buildVars, cellVars, statsVars,
                 repixVars>>

\* a handler that returns without a set()
DirtyStays ==
    /\ UNCHANGED <<dState, dPrev, dUnsaved, dOverflow>>
    /\ UNCHANGED <<nearestVars, cltVars, repVars, pixVars, mergeVars, optVars, fillVars,
                   paintVars, lineVars, circleVars, ditherVars, storeVars,
                   rectVars, previewVars, shareVars, buildVars, cellVars, statsVars,
                 repixVars>>

DirtyInit ==
    /\ dState = [project |-> [f \in ProjectFields |-> 0], isDirty |-> FALSE,
                 showUnsavedDialog |-> FALSE]
    /\ dPrev = [f \in ProjectFields |-> 0]
    /\ dUnsaved = FALSE
    /\ dOverflow = FALSE
    /\ dLast = "none"
    /\ NearestIdle /\ CltIdle /\ RepIdle /\ PixIdle /\ MergeIdle /\ OptIdle /\ FillIdle
    /\ PaintIdle /\ LineIdle /\ CircleIdle /\ DitherIdle
    /\ StoreIdle
    /\ RectIdle
    /\ PreviewIdle
    /\ ShareIdle
    /\ BuildIdle
    /\ CellsIdle
    /\ StatsIdle
    /\ RepixIdle

\* a handler that sets one project field: setPixels, setGridDimensions,
\* setGridType, setColorSystem, setMaxColors, setProjectName, setCanvasMode,
\* toggleLockedColor
DirtyEdit ==
    /\ dLast' = "edit"
    /\ \E f \in ProjectFields, v \in FieldValues :
          DirtySet([dState EXCEPT !.project[f] = v],
                   dUnsaved \/ v # dState.project[f])

\* saveProject: set({isDirty: false, ...}) after a successful write, nothing
\* after a cancelled or failed one
DirtySaveProject ==
    /\ dLast' = "saveProject"
    /\ \E saved \in BOOLEAN :
          IF saved THEN DirtySet([dState EXCEPT !.isDirty = FALSE], FALSE)
          ELSE DirtyStays

\* openProject: the unsaved-changes dialogue when isDirty, else
\* loadProjectData with the file's fields (its arrays are new)
DirtyOpenProject ==
    /\ dLast' = "openProject"
    /\ IF dState.isDirty
       THEN DirtySet([dState EXCEPT !.showUnsavedDialog = TRUE], dUnsaved)
       ELSE \E data \in [ProjectFields -> FieldValues] :
               /\ data["pixels"] # dState.project["pixels"]
               /\ data["lockedColors"] # dState.project["lockedColors"]
               /\ DirtySet([dState EXCEPT !.project = data, !.isDirty = FALSE], FALSE)

\* newProject: the unsaved-changes dialogue when isDirty, else the default
\* fields with a new grid and a new set of locked colours
DirtyNewProject ==
    /\ dLast' = "newProject"
    /\ IF dState.isDirty
       THEN DirtySet([dState EXCEPT !.showUnsavedDialog = TRUE], dUnsaved)
       ELSE \E grid \in FieldValues \ { dState.project["pixels"] },
               locked \in FieldValues \ { dState.project["lockedColors"] } :
               DirtySet([dState EXCEPT
                            !.project = [f \in ProjectFields |->
                                            IF f = "pixels" THEN grid
                                            ELSE IF f = "lockedColors" THEN locked
                                            ELSE 0],
                            !.isDirty = FALSE], FALSE)

DirtyNext == DirtyEdit \/ DirtySaveProject \/ DirtyOpenProject \/ DirtyNewProject

SpecDirty == DirtyInit /\ [][DirtyNext]_vars

\* ---- rePixelate and the import dialogue with dithering ----

\* paletteResult.map((row) => row.map((pc) =>
\*     ({ key: pc.key, color: pc.hex, isExternal: false })))
BeadsOfEntries(paletteResult) ==
    [y \in DOMAIN paletteResult |-> [x \in DOMAIN paletteResult[y] |->
        Cell(paletteResult[y][x].key, paletteResult[y][x].hex, ExtFalse)]]

\* the dithering branch of rePixelate and of the import: ditherFn on the
\* resized buffer, the palette entries turned into cells
DitheredPixels(a, cache, pals) ==
    LET res == dither(a, cache, pals)
    IN  [pixels |-> BeadsOfEntries(res.grid), cache |-> res.cache]

\* startX and endX (startY, endY) of the cut-out pass of the import
CutoutStart(i, len, n) == (i * len) \div n

CutoutEnd(i, len, n) == Min(len, ((i + 1) * len) \div n)

\* total > 0 && transparentCount / total > 0.5 for cell (column c, row r)
\* of an N x M grid over the image img
MostlyTransparent(img, N, M, r, c) ==
    LET cells == { p \in (CutoutStart(c, img.width, N)..(CutoutEnd(c, img.width, N) - 1))
                         \X (CutoutStart(r, img.height, M)..(CutoutEnd(r, img.height, M) - 1)) :
                     TRUE }
        clear == { p \in cells : img.data[p[2] * img.width + p[1] + 1].a < 128 }
    IN  Cardinality(cells) > 0 /\ 2 * Cardinality(clear) > Cardinality(cells)

\* the cut-out pass of the import over resultPixels
CutOut(pixels, img, N, M) ==
    [y \in DOMAIN pixels |-> [x \in DOMAIN pixels[y] |->
        IF MostlyTransparent(img, N, M, y - 1, x - 1) THEN transparentPixel
        ELSE pixels[y][x]]]

RepixInit ==
    /\ palettes = DitherPalettes
    /\ cltPalette \in {NoPalette, "p2", "p3"}
    /\ cltTable = IF cltPalette = NoPalette THEN NoTable ELSE FilledTable(palettes[cltPalette])
    /\ call = NoCall
    /\ \E W \in 1..MaxDither, H \in 1..MaxDither :
          /\ W * H <= MaxDither
          /\ \E d \in [1..(W * H) -> DitherPixels], p \in DitherPalIds,
                k \in Strengths, op \in DitherOps :
                xArgs = [img |-> [width |-> W, height |-> H, data |-> d],
                         palette |-> p, strength |-> k, op |-> op]
    /\ xPc = "start"
    /\ xGrid = <<>>
    /\ NearestIdle /\ RepIdle /\ PixIdle /\ MergeIdle /\ OptIdle /\ FillIdle /\ PaintIdle
    /\ LineIdle /\ CircleIdle /\ DitherIdle
    /\ StoreIdle
    /\ RectIdle
    /\ PreviewIdle
    /\ ShareIdle
    /\ BuildIdle
    /\ CellsIdle
    /\ StatsIdle
    /\ DirtyIdle

\* rePixelate(dims) with a source image and ditherAlgorithm other than
\* 'none'; xArgs.img is the buffer getImageData returns after the resize
RePixelateDither ==
    /\ xPc = "start"
    /\ \E res \in { DitheredPixels(xArgs, [palette |-> cltPalette, table |-> cltTable],
                                   palettes) } :
          /\ xGrid' = res.pixels
          /\ cltPalette' = res.cache.palette
          /\ cltTable' = res.cache.table
    /\ xPc' = "rePixelate"
    /\ UNCHANGED <<xArgs, palettes, call>>
    /\ UNCHANGED <<nearestVars, repVars, pixVars, mergeVars, optVars, fillVars,
                   paintVars, lineVars, circleVars, ditherVars, storeVars,
                   rectVars, previewVars, shareVars, buildVars, cellVars, statsVars,
                   dirtyVars>>

\* the import with dithering, without and with the cut-out pass; the
\* imported image has the size of the grid, so that the resize leaves it
\* as it is
ImportDither(cutout) ==
    /\ xPc = "start"
    /\ \E res \in { DitheredPixels(xArgs, [palette |-> cltPalette, table |-> cltTable],
                                   palettes) } :
          /\ xGrid' = IF cutout
                      THEN CutOut(res.pixels, xArgs.img, xArgs.img.width, xArgs.img.height)
                      ELSE res.pixels
          /\ cltPalette' = res.cache.palette
          /\ cltTable' = res.cache.table
    /\ xPc' = IF cutout THEN "importCutout" ELSE "import"
    /\ UNCHANGED <<xArgs, palettes, call>>
    /\ UNCHANGED <<nearestVars, repVars, pixVars, mergeVars, optVars, fillVars,
                   paintVars, lineVars, circleVars, ditherVars, storeVars,
                   rectVars, previewVars, shareVars, buildVars, cellVars, statsVars,
                   dirtyVars>>

RepixNext ==
    \/ RePixelateDither
    \/ \E cutout \in BOOLEAN : ImportDither(cutout)

SpecRepix == RepixInit /\ [][RepixNext]_vars

----------------------------------------------------------------------------
(* 8. Properties                                                           *)

\* C1: findClosestPaletteColor returns, for a non-empty palette, the
\* earliest entry of minimal redmean distance to the target (hence an entry
\* of exactly the target's RGB when there is one), and for the empty
\* palette the sentinel {ERR, #000000, (0,0,0)}.
C1_EarliestNearest ==
    nPc = "returned" =>
        IF Len(nPalette) = 0
        THEN /\ nResult = 0
             /\ EntryAt(nPalette, nResult) =
                    [key |-> "ERR", hex |-> <<0, 0, 0, 0, 0, 0>>, rgb |-> Rgb(0, 0, 0)]
        ELSE /\ nResult \in 1..Len(nPalette)
             /\ \A j \in 1..Len(nPalette) :
                    perceptualDistance(nTarget, nPalette[nResult].rgb)
                        <= perceptualDistance(nTarget, nPalette[j].rgb)
             /\ \A j \in 1..(nResult - 1) :
                    perceptualDistance(nTarget, nPalette[nResult].rgb)
                        < perceptualDistance(nTarget, nPalette[j].rgb)
             /\ (\E j \in 1..Len(nPalette) : nPalette[j].rgb = nTarget)
                    => nPalette[nResult].rgb = nTarget
             /\ (nPalette = <<EntryA, EntryB>> /\ nTarget = Rgb(250, 10, 10))
                    => nPalette[nResult].key = "A"

\* C1 witness: a returned call in which two entries of different colour tie
\* for the minimum, at a non-zero distance, and the earlier one was returned.
C1_Witness ==
    /\ nPc = "returned"
    /\ nResult >= 1
    /\ perceptualDistance(nTarget, nPalette[nResult].rgb) > 0
    /\ \E j \in (nResult + 1)..Len(nPalette) :
          /\ nPalette[j].rgb # nPalette[nResult].rgb
          /\ perceptualDistance(nTarget, nPalette[j].rgb)
                = perceptualDistance(nTarget, nPalette[nResult].rgb)

\* C2: for every entry e of a non-empty palette P, the exact and the fast
\* query for e.rgb both return an entry of exactly e's colour.
C2_PaletteColourFixed ==
    (call.op \in {"exact", "fast"}) =>
        \A i \in 1..Len(palettes[call.pal]) :
            palettes[call.pal][i].rgb = call.target =>
                /\ EntryAt(palettes[call.pal], call.idx).rgb = palettes[call.pal][i].rgb
                /\ EntryAt(palettes[call.pal], call.idx).hex = palettes[call.pal][i].hex

\* the midpoint colour of a channel's 5-bit bucket, 8*floor(c/8)+3
Midpoint(c) == 8 * (c \div 8) + 3

\* C3: the cached table is always the table of the cached palette instance;
\* a fast query (X, P) returns the exact answer for the midpoint of X's
\* bucket in the P of that call; and a build or query rebuilds exactly when
\* P is not the instance the cache was built for.
C3_CacheConsistent ==
    /\ (cltPalette = NoPalette) <=> (cltTable = NoTable)
    /\ cltPalette # NoPalette =>
          \A t \in FastTargets :
              cltTable[TargetIndex(t)] =
                  findClosestIndex(Rgb(Midpoint(t.r), Midpoint(t.g), Midpoint(t.b)),
                                   palettes[cltPalette])
    /\ call.op = "fast" =>
          /\ call.idx =
                findClosestIndex(Rgb(Midpoint(call.target.r), Midpoint(call.target.g),
                                     Midpoint(call.target.b)),
                                 palettes[call.pal])
          /\ cltPalette = call.pal
    /\ call.op \in {"fast", "build"} =>
          (call.rebuilt <=> call.cachedBefore # call.pal)

\* C3 witness: a fast query against a palette other than the cached one,
\* whose answer differs from what the previously cached table held.
C3_Witness ==
    /\ call.op = "fast"
    /\ call.cachedBefore \notin {NoPalette, call.pal}
    /\ call.rebuilt
    /\ EntryAt(palettes[call.pal], call.idx) #
          EntryAt(palettes[call.cachedBefore],
                  findClosestIndex(ProbeOf(call.target), palettes[call.cachedBefore]))

\* C3 witness of reuse is covered by the same run: an equal-content but
\* distinct instance rebuilds.
C3_WitnessEqualContent ==
    /\ call.op = "fast"
    /\ call.cachedBefore \notin {NoPalette, call.pal}
    /\ palettes[call.cachedBefore] = palettes[call.pal]
    /\ call.rebuilt

\* ---- sampler: what the claims say, stated on sets of pixels ----

RECURSIVE SetSum(_)
SetSum(S) ==
    IF S = {} THEN 0
    ELSE LET x == CHOOSE x \in S : TRUE IN x.v + SetSum(S \ {x})

\* the source rectangle of cell (column i, row j), counted from 0: from
\* floor(i*W/N) to min(W, ceil((i+1)*W/N)) - 1, likewise vertically
RectOf(img, N, M, i, j) ==
    { c \in [x : 0..(img.width - 1), y : 0..(img.height - 1)] :
        /\ c.x >= (i * img.width) \div N
        /\ c.x * N < (i + 1) * img.width
        /\ c.y >= (j * img.height) \div M
        /\ c.y * M < (j + 1) * img.height }

Included(img, R) == { c \in R : PixelAt(img, c.x, c.y).a >= 128 }

ColourAt(img, c) == Rgb(PixelAt(img, c.x, c.y).r, PixelAt(img, c.x, c.y).g, PixelAt(img, c.x, c.y).b)

CountOf(img, S, col) == Cardinality({ c \in S : ColourAt(img, c) = col })

MostFrequent(img, S) ==
    { ColourAt(img, c) : c \in { c \in S :
        \A d \in S : CountOf(img, S, ColourAt(img, d)) <= CountOf(img, S, ColourAt(img, c)) } }

\* the mean of a channel over S, rounded half up
MeanOf(img, S, ch) ==
    LET total == SetSum({ [c |-> c, v |-> PixelAt(img, c.x, c.y)[ch]] : c \in S })
        n == Cardinality(S)
    IN  CHOOSE m \in 0..255 : 2 * n * m <= 2 * total + n /\ 2 * total + n < 2 * n * (m + 1)

Representatives(img, S, mode) ==
    IF mode = "average"
    THEN { Rgb(MeanOf(img, S, "r"), MeanOf(img, S, "g"), MeanOf(img, S, "b")) }
    ELSE MostFrequent(img, S)

NearestByIndex(rgb, palette) ==
    findClosestPaletteColor(Rgb(Midpoint(rgb.r), Midpoint(rgb.g), Midpoint(rgb.b)), palette)

\* C4: calculatePixelGrid returns M rows of N cells; a cell is the
\* transparent sentinel exactly when every pixel of its source rectangle has
\* alpha < 128, and otherwise carries key and hex of the entry the
\* nearest-colour index gives for the representative colour of the pixels
\* with alpha >= 128; the fallback colour decides no cell.
C4_GridOfSampledCells ==
    pixPc = "done" =>
        /\ Len(pixGrid) = pixArgs.M
        /\ \A j \in 1..pixArgs.M : Len(pixGrid[j]) = pixArgs.N
        /\ \A j \in 1..pixArgs.M, i \in 1..pixArgs.N :
              LET inc == Included(pixArgs.img,
                                  RectOf(pixArgs.img, pixArgs.N, pixArgs.M, i - 1, j - 1))
                  cell == pixGrid[j][i]
              IN  /\ (cell = [key |-> "ERASE", color |-> HFFFFFF, isExternal |-> ExtTrue])
                        <=> (inc = {})
                  /\ inc # {} =>
                        \E rgb \in Representatives(pixArgs.img, inc, pixArgs.mode) :
                            LET e == NearestByIndex(rgb, palettes[pixArgs.palette])
                            IN  /\ cell.key = e.key
                                /\ cell.color = e.hex
                                /\ cell.isExternal # ExtTrue

\* C4 witness: a finished call with a non-empty palette in which one cell is
\* transparent, another mixes transparent and opaque pixels, and the
\* fallback colour is not the colour of any cell.
C4_Witness ==
    /\ pixPc = "done"
    /\ palettes[pixArgs.palette] # <<>>
    /\ \E j \in 1..pixArgs.M, i \in 1..pixArgs.N : pixGrid[j][i] = transparentPixel
    /\ \E j \in 1..pixArgs.M, i \in 1..pixArgs.N :
          LET R == RectOf(pixArgs.img, pixArgs.N, pixArgs.M, i - 1, j - 1)
          IN  Included(pixArgs.img, R) \notin {{}, R}
    /\ \A j \in 1..pixArgs.M, i \in 1..pixArgs.N : pixGrid[j][i].color # pixArgs.fallback.hex

\* position in the scan of the n-th included pixel of colour col
NthSeen(args, col, n) ==
    LET coords == RectCoords(args.sx, args.sy, args.w, args.h)
        seen(k) == Cardinality({ m \in 1..k :
                        /\ PixelAt(args.img, coords[m].x, coords[m].y).a >= 128
                        /\ ColourAt(args.img, coords[m]) = col })
    IN  CHOOSE k \in 1..Len(coords) : seen(k) = n /\ (k = 1 \/ seen(k - 1) < n)

RepIncluded ==
    Included(repArgs.img,
             { c \in [x : 0..(repArgs.img.width - 1), y : 0..(repArgs.img.height - 1)] :
                 /\ c.x >= repArgs.sx /\ c.x < repArgs.sx + repArgs.w
                 /\ c.y >= repArgs.sy /\ c.y < repArgs.sy + repArgs.h })

\* C5 as claimed: in dominant mode the representative colour has the maximum
\* count among the included pixels, and among the colours of maximum count
\* it is the one seen first in the row-major scan.
C5_DominantFirstSeen ==
    (repPc = "returned" /\ repArgs.mode = "dominant" /\ RepIncluded # {}) =>
        /\ repResult \in MostFrequent(repArgs.img, RepIncluded)
        /\ \A col \in MostFrequent(repArgs.img, RepIncluded) :
              NthSeen(repArgs, repResult, 1) <= NthSeen(repArgs, col, 1)

\* C5 amended: the representative colour has the maximum count, and among
\* the colours of maximum count it is the one whose count reached that
\* maximum first in the row-major scan.
C5_DominantFirstToMax ==
    (repPc = "returned" /\ repArgs.mode = "dominant" /\ RepIncluded # {}) =>
        LET best == MostFrequent(repArgs.img, RepIncluded)
            top == CountOf(repArgs.img, RepIncluded, repResult)
        IN  /\ repResult \in best
            /\ \A col \in best : NthSeen(repArgs, repResult, top) <= NthSeen(repArgs, col, top)

\* C5 witness: two colours tie for the maximum count and the one returned
\* is not the one seen first.
C5_Witness ==
    /\ repPc = "returned"
    /\ repArgs.mode = "dominant"
    /\ RepIncluded # {}
    /\ \E col \in MostFrequent(repArgs.img, RepIncluded) :
          /\ col # repResult
          /\ NthSeen(repArgs, col, 1) < NthSeen(repArgs, repResult, 1)

\* ---- planner ----

\* the MergeResult the claim describes for the arguments of the call
PlanAsClaimed ==
    IF Len(mUsage) <= mTarget
    THEN /\ mPlan.mergeMap = <<>>
         /\ mPlan.mergeKeyMap = <<>>
         /\ mPlan.mergedCount = 0
         /\ mPlan.colorsBefore = Len(mUsage)
         /\ mPlan.colorsAfter = Len(mUsage)
    ELSE /\ mPlan.colorsBefore = Len(mUsage)
         /\ mPlan.colorsAfter = mTarget
         /\ mPlan.mergedCount = Len(mUsage) - mTarget
         /\ Cardinality(DOMAIN mPlan.mergeMap) = Len(mUsage) - mTarget

\* C6 as claimed: for every usage list of pairwise distinct hexes and every
\* target >= 0 the call returns (it does not raise) and the plan returned is
\* the empty plan when |usage| <= target, else has colorsAfter = target and
\* mergedCount = |usage| - target.
C6_PlanForEveryTarget ==
    /\ mPc # "threw"
    /\ mPc = "done" => PlanAsClaimed

\* C6 outside the failing case: for every target >= 1, and for target 0 when
\* the usage list is empty, the call reaches its return with that plan.
C6_PlanForPositiveTarget ==
    /\ []((mTarget >= 1 \/ Len(mUsage) = 0) =>
            (mPc # "threw" /\ (mPc = "done" => PlanAsClaimed)))
    /\ <>((mTarget >= 1 \/ Len(mUsage) = 0) => mPc = "done")

\* a returned plan that took two merges
PlanOfTwoMerges ==
    /\ mPc = "done"
    /\ mTarget >= 1
    /\ mPlan.mergedCount >= 2

LastMerge == mState.last

\* C7: every merge step takes the first pair, in the i<j scan order, of
\* minimum redmean distance among the active colours; the one of strictly
\* lower count is the victim, on equal counts the earlier-indexed survives;
\* the survivor gains the victim's count and the victim leaves the working
\* set.  The 3-colour scenario ends with both colours mapped to #000000.
C7_ClosestPairLowerCountAbsorbed ==
    /\ (mPc \in {"loop", "done"} /\ mState # <<>> /\ LastMerge.a # 0) =>
          LET pre == LastMerge.before
              a == LastMerge.a
              b == LastMerge.b
              sv == LastMerge.survivor
              vc == LastMerge.victim
              dist(i, j) == perceptualDistance(pre[i].rgb, pre[j].rgb)
          IN  /\ 1 <= a /\ a < b /\ b <= Len(pre)
              /\ \A i, j \in 1..Len(pre) :
                    i < j => /\ dist(a, b) <= dist(i, j)
                             /\ (i < a \/ (i = a /\ j < b)) => dist(a, b) < dist(i, j)
              /\ {sv, vc} = {a, b}
              /\ pre[vc].count <= pre[sv].count
              /\ pre[a].count = pre[b].count => sv = a
              /\ Len(mState.active) = Len(pre) - 1
              /\ \A n \in 1..Len(pre) :
                    n # vc =>
                        LET m == IF n < vc THEN n ELSE n - 1
                        IN  /\ mState.active[m].hex = pre[n].hex
                            /\ mState.active[m].key = pre[n].key
                            /\ mState.active[m].count =
                                  IF n = sv THEN pre[sv].count + pre[vc].count
                                  ELSE pre[n].count
              /\ mState.mergeMap[pre[vc].hex] = pre[sv].hex
    /\ (/\ mPc = "done"
        /\ mTarget = 1
        /\ mUsage = << Usage(H000000, "K0", Rgb(0, 0, 0), 10),
                       Usage(H010101, "K1", Rgb(1, 1, 1), 5),
                       Usage(HFFFFFF, "W", Rgb(255, 255, 255), 1) >>)
          => /\ DOMAIN mPlan.mergeMap = {H010101, HFFFFFF}
             /\ mPlan.mergeMap[H010101] = H000000
             /\ mPlan.mergeMap[HFFFFFF] = H000000

\* C7 witness: a merge step in which two pairs tie for the minimum distance
\* and the two colours merged have equal counts.
C7_Witness ==
    /\ mPc \in {"loop", "done"}
    /\ mState # <<>>
    /\ LastMerge.a # 0
    /\ LET pre == LastMerge.before
       IN  /\ pre[LastMerge.a].count = pre[LastMerge.b].count
           /\ \E i, j \in 1..Len(pre) :
                 /\ i < j
                 /\ <<i, j>> # <<LastMerge.a, LastMerge.b>>
                 /\ perceptualDistance(pre[i].rgb, pre[j].rgb)
                       = perceptualDistance(pre[LastMerge.a].rgb, pre[LastMerge.b].rgb)

\* C8: after every merge step and in the returned plan no value of mergeMap
\* is a key of mergeMap; every merged hex maps to the hex of a colour still
\* in the working set, and mergeKeyMap has the same keys, each mapped to
\* that colour's key.
C8_PathCompressed ==
    /\ (mPc \in {"loop", "done", "threw"} /\ mState # <<>>) =>
          /\ DOMAIN mState.mergeKeyMap = DOMAIN mState.mergeMap
          /\ DOMAIN mState.mergeMap =
                { mUsage[k].hex : k \in 1..Len(mUsage) }
                    \ { mState.active[k].hex : k \in 1..Len(mState.active) }
          /\ \A h \in DOMAIN mState.mergeMap :
                /\ mState.mergeMap[h] \notin DOMAIN mState.mergeMap
                /\ \E k \in 1..Len(mState.active) :
                      /\ mState.active[k].hex = mState.mergeMap[h]
                      /\ mState.active[k].key = mState.mergeKeyMap[h]
    /\ (mPc = "done" /\ mState # <<>>) =>
          /\ mPlan.mergeMap = mState.mergeMap
          /\ mPlan.mergeKeyMap = mState.mergeKeyMap

\* C8 witness: the victim of the last merge had itself absorbed a colour
\* before (its count exceeds the count it came with).
C8_Witness ==
    /\ mPc \in {"loop", "done"}
    /\ mState # <<>>
    /\ LastMerge.a # 0
    /\ \E k \in 1..Len(mUsage) :
          /\ mUsage[k].hex = LastMerge.before[LastMerge.victim].hex
          /\ mUsage[k].count < LastMerge.before[LastMerge.victim].count

\* C9: applying the plan of calculateMergePlan(collectColorUsage(g), t) to
\* applyColorMerge(g, plan) again changes no cell (key, colour, external
\* flag).
C9_MergeIdempotent ==
    oPc = "reapplied" =>
        /\ Len(oTwice) = Len(oOnce)
        /\ \A j \in 1..Len(oOnce) :
              /\ Len(oTwice[j]) = Len(oOnce[j])
              /\ \A i \in 1..Len(oOnce[j]) :
                    /\ oTwice[j][i].key = oOnce[j][i].key
                    /\ oTwice[j][i].color = oOnce[j][i].color
                    /\ oTwice[j][i].isExternal = oOnce[j][i].isExternal

\* C9 witness: the plan was applied twice, the first application changed
\* the grid, and the survivor of the first merge was itself merged later.
C9_Witness ==
    /\ oPc = "reapplied"
    /\ oOnce # oGrid
    /\ LET usage == collectColorUsage(oGrid)
           first == calculateMergePlan(usage, Len(usage) - 1).plan.mergeMap
       IN  \E v \in DOMAIN first : first[v] \in DOMAIN oPlan.mergeMap

\* ---- flood fill ----

FillStart == Pos(fArgs.startRow, fArgs.startCol)

FillPositions == { Pos(r, c) : r \in 0..(fArgs.M - 1), c \in 0..(fArgs.N - 1) }

Adjacent(p, q) ==
    \/ p.row = q.row /\ (p.col = q.col + 1 \/ q.col = p.col + 1)
    \/ p.col = q.col /\ (p.row = q.row + 1 \/ q.row = p.row + 1)

\* colour and external flag (absent read as false) both equal the start cell's
LikeStart(p) ==
    LET c == CellAt(fArgs.pixels, p.row, p.col)
        s == CellAt(fArgs.pixels, FillStart.row, FillStart.col)
    IN  /\ c.color = s.color
        /\ (c.isExternal = ExtTrue) = (s.isExternal = ExtTrue)

RECURSIVE Grow(_)
Grow(S) ==
    LET T == S \cup { q \in FillPositions : LikeStart(q) /\ \E p \in S : Adjacent(p, q) }
    IN  IF T = S THEN S ELSE Grow(T)

\* the 4-connected component of the start cell
Component == Grow({FillStart})

FillApplies ==
    /\ FillStart \in FillPositions
    /\ LET s == CellAt(fArgs.pixels, FillStart.row, FillStart.col)
       IN  \/ fArgs.fillValue.color # s.color
           \/ (fArgs.fillValue.isExternal = ExtTrue) # (s.isExternal = ExtTrue)

\* C10: with the start cell inside the grid and a fill value that differs
\* from it in colour or external flag, floodFill returns a grid of the same
\* shape in which exactly the cells of the start cell's 4-connected
\* component (cells matching its colour and external flag, whatever their
\* key) have changed, each to a copy of the fill value.
C10_FillsComponentOnly ==
    (fPc = "done" /\ FillApplies) =>
        /\ DOMAIN fResult = DOMAIN fArgs.pixels
        /\ \A r \in DOMAIN fResult : DOMAIN fResult[r] = DOMAIN fArgs.pixels[r]
        /\ \A p \in FillPositions :
              LET old == CellAt(fArgs.pixels, p.row, p.col)
                  new == CellAt(fResult, p.row, p.col)
              IN  IF p \in Component
                  THEN new = fArgs.fillValue /\ new # old
                  ELSE new = old

\* C10 witness: a fill whose component has two cells of different keys,
\* with a matching cell outside the component and a cell of the same
\* colour but the other external flag left alone.
C10_Witness ==
    /\ fPc = "done"
    /\ FillApplies
    /\ \E p, q \in Component :
          CellAt(fArgs.pixels, p.row, p.col).key # CellAt(fArgs.pixels, q.row, q.col).key
    /\ \E p \in FillPositions \ Component : LikeStart(p)
    /\ \E p \in FillPositions \ Component :
          /\ ~LikeStart(p)
          /\ CellAt(fArgs.pixels, p.row, p.col).color
                = CellAt(fArgs.pixels, FillStart.row, FillStart.col).color
          /\ \E q \in Component : Adjacent(p, q)

\* the fill value has the start cell's colour and external flag
FillSameAsStart ==
    LET s == CellAt(fArgs.pixels, FillStart.row, FillStart.col)
    IN  /\ fArgs.fillValue.color = s.color
        /\ (fArgs.fillValue.isExternal = ExtTrue) = (s.isExternal = ExtTrue)

\* C11: floodFill returns its argument itself when the start lies outside
\* the grid or the fill value has the start cell's colour and external
\* flag; floodFillErase started outside the grid, on an external cell or on
\* a cell of another key returns a grid equal by value to its argument.
C11_NoOpReturnsInput ==
    /\ (fPc = "done" /\ (FillStart \notin FillPositions \/ FillSameAsStart)) =>
          fRef = "pixels" /\ fResult = fArgs.pixels
    /\ (/\ fPc = "erased"
        /\ \/ FillStart \notin FillPositions
           \/ CellAt(fArgs.pixels, FillStart.row, FillStart.col).isExternal = ExtTrue
           \/ CellAt(fArgs.pixels, FillStart.row, FillStart.col).key # fKey) =>
          fResult = fArgs.pixels

\* C11 witness: a fill inside the grid with a value of the start cell's
\* colour and flag but another key, the flag absent on one side and false on
\* the other.
C11_Witness ==
    /\ fPc = "done"
    /\ FillStart \in FillPositions
    /\ FillSameAsStart
    /\ fArgs.fillValue.key # CellAt(fArgs.pixels, FillStart.row, FillStart.col).key
    /\ fArgs.fillValue.isExternal
          # CellAt(fArgs.pixels, FillStart.row, FillStart.col).isExternal
    /\ fRef = "pixels"

\* a non-external cell of the target key
EraseLike(p) ==
    LET c == CellAt(fArgs.pixels, p.row, p.col)
    IN  c.isExternal # ExtTrue /\ c.key = fKey

RECURSIVE GrowErase(_)
GrowErase(S) ==
    LET T == S \cup { q \in FillPositions : EraseLike(q) /\ \E p \in S : Adjacent(p, q) }
    IN  IF T = S THEN S ELSE GrowErase(T)

EraseComponent ==
    IF FillStart \in FillPositions /\ EraseLike(FillStart)
    THEN GrowErase({FillStart})
    ELSE {}

H112233 == <<1, 1, 2, 2, 3, 3>>

AllX1 == [r \in 1..3 |-> [c \in 1..3 |-> Cell("X1", H112233, ExtUndefined)]]

\* the scenario: the 3x3 grid of key X1 erased from (1,1)
ErasedAllX1 == floodFillErase(AllX1, 3, 3, 1, 1, "X1")

\* C12: floodFillErase turns exactly the cells of the start cell's
\* 4-connected component of non-external cells of the target key (whatever
\* their colour) into the transparent sentinel and leaves every other cell
\* as it was; on the 3x3 grid of key X1 erased from (1,1) all 9 cells become
\* the sentinel.
C12_ErasesComponentOnly ==
    /\ fPc = "erased" =>
          /\ DOMAIN fResult = DOMAIN fArgs.pixels
          /\ \A r \in DOMAIN fResult : DOMAIN fResult[r] = DOMAIN fArgs.pixels[r]
          /\ \A p \in FillPositions :
                LET old == CellAt(fArgs.pixels, p.row, p.col)
                    new == CellAt(fResult, p.row, p.col)
                IN  IF p \in EraseComponent
                    THEN new = transparentPixel /\ new # old
                    ELSE new = old
    /\ ErasedAllX1 = [r \in 1..3 |-> [c \in 1..3 |-> transparentPixel]]

\* C12 witness: an erase of a component of two cells next to an external
\* cell of the target key and next to a cell of the same colour but another
\* key.
C12_Witness ==
    /\ fPc = "erased"
    /\ Cardinality(EraseComponent) >= 2
    /\ \E p \in FillPositions \ EraseComponent :
          /\ CellAt(fArgs.pixels, p.row, p.col).key = fKey
          /\ CellAt(fArgs.pixels, p.row, p.col).isExternal = ExtTrue
          /\ \E q \in EraseComponent : Adjacent(p, q)
    /\ \E p \in FillPositions \ EraseComponent :
          /\ CellAt(fArgs.pixels, p.row, p.col).key # fKey
          /\ CellAt(fArgs.pixels, p.row, p.col).color
                = CellAt(fArgs.pixels, FillStart.row, FillStart.col).color
          /\ \E q \in EraseComponent : Adjacent(p, q)

\* ---- painting ----

PaintedPixel == pPc = "done" /\ pOp.op = "paintPixel"

PaintedCells == pPc = "done" /\ pOp.op = "paintCells"

PaintPositions == { Pos(r, c) : r \in 0..(pArgs.M - 1), c \in 0..(pArgs.N - 1) }

\* key, colour and external flag agree, a cell without the flag being
\* non-external
EqualPixel(a, b) ==
    /\ a.key = b.key
    /\ a.color = b.color
    /\ (a.isExternal = ExtTrue) = (b.isExternal = ExtTrue)

\* C13: paintPixel returns null when the target cell equals the value by
\* key, colour and external flag (a cell without the flag being
\* non-external, as calculatePixelGrid leaves it); in every other in-grid
\* case it returns a new grid that differs from the input in exactly that
\* cell, which equals the value.
C13_PaintNullWhenEqual ==
    (PaintedPixel /\ Pos(pOp.row, pOp.col) \in PaintPositions) =>
        LET old == CellAt(pArgs.pixels, pOp.row, pOp.col)
        IN  IF EqualPixel(old, pArgs.value)
            THEN pResult = NullGrid
            ELSE /\ pResult # NullGrid
                 /\ pResult # PixelsId
                 /\ \A p \in PaintPositions :
                       HeapCellAt(pHeap, pResult, p.row, p.col) =
                          IF p = Pos(pOp.row, pOp.col) THEN pArgs.value
                          ELSE CellAt(pArgs.pixels, p.row, p.col)

\* C13 witness of the failing case: a cell without the flag painted with the
\* pencil value of its own key and colour comes back as a new grid.
PaintedOwnColour ==
    /\ PaintedPixel
    /\ Pos(pOp.row, pOp.col) \in PaintPositions
    /\ CellAt(pArgs.pixels, pOp.row, pOp.col)
          = Cell(pArgs.value.key, pArgs.value.color, ExtUndefined)
    /\ pResult # NullGrid

InputIds == DOMAIN InputHeap(pArgs.pixels)

\* the rows (from 0) of the result whose value differs from the input row
RowsChanged ==
    IF pResult = NullGrid THEN {}
    ELSE { r \in 0..(pArgs.M - 1) : GridOf(pHeap, pResult)[r + 1] # pArgs.pixels[r + 1] }

\* C14: paintPixel and paintCells leave every array of the input as it was;
\* a row of the result in which nothing was written is the input's row
\* array itself, a written row is a fresh array, and each written row was
\* copied exactly once.
C14_StructuralSharing ==
    pPc = "done" =>
        /\ \A id \in InputIds : pHeap[id] = InputHeap(pArgs.pixels)[id]
        /\ pResult # NullGrid =>
              /\ Len(pHeap[pResult]) = pArgs.M
              /\ \A r \in 0..(pArgs.M - 1) :
                    IF r \in RowsChanged
                    THEN pHeap[pResult][r + 1] \notin InputIds
                    ELSE pHeap[pResult][r + 1] = r + 2
        /\ \A i, j \in 1..Len(pCopies) : pCopies[i] = pCopies[j] => i = j
        /\ { pCopies[i] : i \in 1..Len(pCopies) } = RowsChanged
        /\ Cardinality(DOMAIN pHeap) =
              Cardinality(InputIds) + Cardinality(RowsChanged)
                 + (IF pResult \in InputIds \cup {NullGrid} THEN 0 ELSE 1)

\* C14 witness: paintCells wrote two cells of one row of a grid of two rows.
C14_Witness ==
    /\ PaintedCells
    /\ pArgs.M = 2
    /\ RowsChanged = {0}
    /\ \A c \in 0..1 :
          HeapCellAt(pHeap, pResult, 0, c) # CellAt(pArgs.pixels, 0, c)
    /\ pHeap[pResult][2] = 3

\* the in-grid candidates of the paintCells call
PaintedSet == { pOp.cells[k] : k \in 1..Len(pOp.cells) } \cap PaintPositions

PaintedOverExternal ==
    /\ PaintedCells
    /\ \E p \in PaintedSet :
          /\ CellAt(pArgs.pixels, p.row, p.col)
                = Cell(pArgs.value.key, pArgs.value.color, ExtTrue)
          /\ HeapCellAt(pHeap, pResult, p.row, p.col).isExternal = ExtTrue

\* ---- shapes ----

Adjacent8(p, q) ==
    /\ p # q
    /\ Abs(p.row - q.row) <= 1
    /\ Abs(p.col - q.col) <= 1

LineAsClaimed ==
    LET res == lSt.result
        n == Max(Abs(lArgs.c1 - lArgs.c0), Abs(lArgs.r1 - lArgs.r0)) + 1
    IN  /\ Len(res) = n
        /\ res[1] = Pos(lArgs.r0, lArgs.c0)
        /\ res[n] = Pos(lArgs.r1, lArgs.c1)
        /\ \A i, j \in 1..n : res[i] = res[j] => i = j
        /\ \A i \in 1..(n - 1) : Adjacent8(res[i], res[i + 1])

\* C16: linePixels returns, and the sequence returned starts at (c0,r0),
\* ends at (c1,r1), holds no cell twice, has max(|c1-c0|,|r1-r0|)+1 cells
\* and consecutive cells are 8-adjacent.
C16_LineConnectsEndpoints ==
    /\ [](lPc = "done" => LineAsClaimed)
    /\ <>(lPc = "done")

\* C16 witness: the line from (0,0) to (3,1) has been returned.
C16_Witness ==
    /\ lPc = "done"
    /\ lArgs = [c0 |-> 0, r0 |-> 0, c1 |-> 3, r1 |-> 1]
    /\ Len(lSt.result) = 4

CircleSet == { cResult[i] : i \in 1..Len(cResult) }

\* the 8 images of the offset (dc, dr) under reflection and transposition
Octants(dc, dr) ==
    { <<dc, dr>>, <<-dc, dr>>, <<dc, -dr>>, <<-dc, -dr>>,
      <<dr, dc>>, <<-dr, dc>>, <<dr, -dc>>, <<-dr, -dc>> }

\* C17: circlePixels returns no cell twice; for radius <= 0 the centre
\* alone; in filled mode exactly the cells with dx*dx + dy*dy <=
\* radius*radius; in outline mode a set closed under the 8 reflections and
\* transpositions about the centre.
C17_CircleCells ==
    cPc = "done" =>
        /\ \A i, j \in 1..Len(cResult) : cResult[i] = cResult[j] => i = j
        /\ cArgs.radius <= 0 => cResult = << Pos(cArgs.cy, cArgs.cx) >>
        /\ (cArgs.radius > 0 /\ cArgs.filled) =>
              CircleSet =
                 { Pos(cArgs.cy + dr, cArgs.cx + dc) :
                      <<dc, dr>> \in { o \in ((-cArgs.radius)..cArgs.radius)
                                              \X ((-cArgs.radius)..cArgs.radius) :
                                          o[1] * o[1] + o[2] * o[2]
                                             <= cArgs.radius * cArgs.radius } }
        /\ (cArgs.radius > 0 /\ ~cArgs.filled) =>
              \A p \in CircleSet :
                 \A o \in Octants(p.col - cArgs.cx, p.row - cArgs.cy) :
                    Pos(cArgs.cy + o[2], cArgs.cx + o[1]) \in CircleSet

\* C17 witness: an outline of radius 3, whose octant points coincide on the
\* axes and on the diagonals, has been returned.
C17_Witness ==
    /\ cPc = "done"
    /\ ~cArgs.filled
    /\ cArgs.radius = 3
    /\ Pos(cArgs.cy, cArgs.cx + 3) \in CircleSet
    /\ Pos(cArgs.cy + 2, cArgs.cx + 2) \in CircleSet

GridEntries(g) == { g[y][x] : <<y, x>> \in { q \in (DOMAIN g) \X (1..Len(g[1])) : TRUE } }

RefDeposit(a, err, x, y, e, w) ==
    IF x >= 0 /\ x < a.img.width /\ y >= 0 /\ y < a.img.height
    THEN Deposit(err, y * a.img.width + x + 1, e, a.strength, w)
    ELSE err

RefDiffuse(a, s, x, y, old, q) ==
    [out |-> [s.out EXCEPT ![y + 1][x + 1] = q],
     err |-> RefDeposit(a,
                 RefDeposit(a,
                     RefDeposit(a,
                         RefDeposit(a, s.err, x + 1, y, FsError(old, q.rgb), 7),
                         x - 1, y + 1, FsError(old, q.rgb), 3),
                     x, y + 1, FsError(old, q.rgb), 5),
                 x + 1, y + 1, FsError(old, q.rgb), 1)]

\* pixel number n in row-major order: skipped when its alpha is below 128,
\* else quantized (raw value plus accumulated error, rounded and clamped,
\* through the palette's lookup table tab) and its error distributed
RefPixel(a, s, n, tab, pal) ==
    IF a.img.data[n + 1].a < 128 THEN s
    ELSE RefDiffuse(a, s, n % a.img.width, n \div a.img.width,
                    FsOld(a.img.data[n + 1], s.err[n + 1]),
                    EntryAt(pal, tab[TargetIndex(FsTarget(FsOld(a.img.data[n + 1],
                                                               s.err[n + 1])))]))

RECURSIVE RefLoop(_, _, _, _, _)
RefLoop(a, st, n, tab, pal) ==
    IF n >= a.img.width * a.img.height THEN st
    ELSE RefLoop(a, CHOOSE s1 \in { RefPixel(a, s, n, tab, pal) : s \in {st} } : TRUE,
                 n + 1, tab, pal)

ReferenceFS(a, pal) ==
    CHOOSE out \in
        { RefLoop(a,
                  [err |-> [i \in 1..(a.img.width * a.img.height) |-> ZeroErr],
                   out |-> FirstEntryGrid(a.img.width, a.img.height, pal)],
                  0, tab, pal).out : tab \in { FilledTable(pal) } } : TRUE

\* C20: the grid floydSteinbergDither returns with its two row buffers is
\* the grid of the reference pass with a full-image error buffer: row-major
\* order, pixels of alpha below 128 skipped (they send no error on, and what
\* was deposited on them is lost), shares 7/16, 3/16, 5/16, 1/16 to the
\* right, lower-left, lower and lower-right neighbours inside the image.
C20_TwoRowsAsFullBuffer ==
    dPc = "between" => dFirst = ReferenceFS(dArgs, palettes[dArgs.palette])

\* C20 witness: a 2x2 image without transparent pixels was dithered at full
\* strength, and the diffusion changed the grid with respect to plain
\* quantization.
C20_Witness ==
    /\ dPc = "between"
    /\ dArgs.img.width = 2 /\ dArgs.img.height = 2
    /\ dArgs.strength = StrengthDen
    /\ \A i \in 1..4 : dArgs.img.data[i].a >= 128
    /\ dFirst # ReferenceFS([dArgs EXCEPT !.strength = 0], palettes[dArgs.palette])

\* C19: in every reachable state of the editor store the grid has exactly
\* gridDimensions.M rows, and every row has exactly gridDimensions.N cells.
C19_GridShape == Rectangular(sPixels, sDims)

\* ---- sampler rectangles ----

InImage(W, H) == [x : 0..(W - 1), y : 0..(H - 1)]

ColumnsOf(R) == { c.x : c \in R }

RowsOf(R) == { c.y : c \in R }

\* C21: for every image size W, H >= 1 and grid size N, M >= 1 the source
\* rectangle calculatePixelGrid samples for each cell is non-empty and lies
\* inside the image, the rectangles of all cells together cover every source
\* pixel, and two horizontally (vertically) adjacent cells share at most one
\* source column (row).
C21_SourceRects ==
    rcPc = "done" =>
        /\ \A j \in 0..(rcArgs.M - 1), i \in 0..(rcArgs.N - 1) :
              /\ rcReads[j][i] # {}
              /\ rcReads[j][i] \subseteq InImage(rcArgs.W, rcArgs.H)
        /\ UNION { rcReads[j][i] : j \in 0..(rcArgs.M - 1), i \in 0..(rcArgs.N - 1) }
              = InImage(rcArgs.W, rcArgs.H)
        /\ \A j \in 0..(rcArgs.M - 1), i \in 0..(rcArgs.N - 2) :
              Cardinality(ColumnsOf(rcReads[j][i]) \cap ColumnsOf(rcReads[j][i + 1])) <= 1
        /\ \A j \in 0..(rcArgs.M - 2), i \in 0..(rcArgs.N - 1) :
              Cardinality(RowsOf(rcReads[j][i]) \cap RowsOf(rcReads[j + 1][i])) <= 1

\* C21 witness: a 5x4 image was sampled into 3 columns and 4 rows; the first
\* two columns of cells share exactly one source column, and the rows of
\* cells share none.
C21_Witness ==
    /\ rcPc = "done"
    /\ rcArgs = [W |-> 5, H |-> 4, N |-> 3, M |-> 4]
    /\ ColumnsOf(rcReads[0][0]) \cap ColumnsOf(rcReads[0][1]) = {1}
    /\ RowsOf(rcReads[0][0]) \cap RowsOf(rcReads[1][0]) = {}

\* ---- preview and plan ----

\* the step of the preview that the merge m of the planner corresponds to
StepOfMerge(m) ==
    MergePreviewItem(m.before[m.victim], m.before[m.survivor],
                     perceptualDistance(m.before[m.a].rgb, m.before[m.b].rgb))

\* the survivor (hex and key) the colour `to` ends in after the steps from
\* number k on
RECURSIVE FinalSurvivor(_, _, _)
FinalSurvivor(previews, k, to) ==
    IF k > Len(previews) THEN to
    ELSE IF previews[k].fromHex = to.hex
    THEN FinalSurvivor(previews, k + 1,
                       [hex |-> previews[k].toHex, key |-> previews[k].toKey])
    ELSE FinalSurvivor(previews, k + 1, to)

ResolvedStep(previews, k) ==
    FinalSurvivor(previews, k + 1, [hex |-> previews[k].toHex, key |-> previews[k].toKey])

\* C22: on the same usage list and target getMergePreview returns exactly
\* one step per merge calculateMergePlan performs, in the same order, with
\* the same victim (hex, key, accumulated count) and survivor (hex, key);
\* resolving each step's victim through the later steps to its final
\* survivor gives mergeMap and mergeKeyMap exactly; and no input usage
\* record is modified by either call.  (Both calls raise on the same inputs.)
C22_PreviewIsPlan ==
    /\ vPc \in {"previewed", "done"} =>
          \A k \in 1..Len(vUsage) : vHeap[vUsage[k]] = vBefore[k]
    /\ vPc = "done" =>
          /\ vPreview.threw = vPlan.threw
          /\ ~vPlan.threw =>
                /\ Len(vPreview.previews) = Len(vPlan.merges)
                /\ \A k \in 1..Len(vPlan.merges) :
                      /\ vPreview.previews[k] = StepOfMerge(vPlan.merges[k])
                /\ DOMAIN vPlan.plan.mergeMap =
                      { vPreview.previews[k].fromHex : k \in 1..Len(vPreview.previews) }
                /\ DOMAIN vPlan.plan.mergeKeyMap = DOMAIN vPlan.plan.mergeMap
                /\ \A k \in 1..Len(vPreview.previews) :
                      /\ vPlan.plan.mergeMap[vPreview.previews[k].fromHex] =
                            ResolvedStep(vPreview.previews, k).hex
                      /\ vPlan.plan.mergeKeyMap[vPreview.previews[k].fromHex] =
                            ResolvedStep(vPreview.previews, k).key

\* C22 witness: three colours were reduced to one in two steps, the victim
\* of the second step being the survivor of the first with its accumulated
\* count, so that the first step resolves through the second.
C22_Witness ==
    /\ vPc = "done"
    /\ ~vPlan.threw
    /\ Len(vPreview.previews) = 2
    /\ vPreview.previews[2].fromHex = vPreview.previews[1].toHex
    /\ vPreview.previews[2].fromCount > vPreview.previews[1].fromCount
    /\ vPlan.plan.mergeMap[vPreview.previews[1].fromHex] = vPreview.previews[2].toHex

\* ---- whole-grid rewrites ----

\* no array of the input grid was written
InputArraysKept ==
    \A id \in DOMAIN InputHeap(hArgs.pixels) : hHeap[id] = InputHeap(hArgs.pixels)[id]

\* row r (from 1) of the array returned is the input's row array
SameRowReference(r) == hHeap[hResult][r] = hHeap[PixelsId][r]

UpperOf(hex) == [i \in DOMAIN hex |-> IF hex[i] \in 16..21 THEN hex[i] - 6 ELSE hex[i]]

\* the cell is rewritten by the call made: it is not external or
\* transparent, and its hex is the source hex, resp. a key of the merge map,
\* up to case
Rewritten(cell) ==
    /\ cell.isExternal # ExtTrue
    /\ cell.key # TRANSPARENT_KEY
    /\ IF hOp.op = "replaceColor" THEN UpperOf(cell.color) = UpperOf(hOp.sourceHex)
       ELSE UpperOf(cell.color) \in DOMAIN hOp.plan.mergeMap

\* what a rewritten cell becomes
RewrittenTo(cell) ==
    IF hOp.op = "replaceColor"
    THEN Cell(hOp.target.key, hOp.target.color, ExtFalse)
    ELSE Cell(hOp.plan.mergeKeyMap[UpperOf(cell.color)],
              hOp.plan.mergeMap[UpperOf(cell.color)], ExtFalse)

C23_MergeWitness ==
    /\ hPc = "done"
    /\ hOp.op = "applyColorMerge"
    /\ Cardinality(DOMAIN hOp.plan.mergeMap) = 2
    /\ hArgs.M = 2
    /\ ~SameRowReference(1)
    /\ SameRowReference(2)

\* the value of the grid returned
ReturnedGrid == GridOf(hHeap, hResult)

\* C24: floodFill and floodFillErase return every row in which the fill
\* changed no cell as the same row array as the input's, and allocate new
\* rows only for rows with a changed cell.
C24_FillSharesRows ==
    (hPc = "done" /\ hOp.op \in {"floodFill", "floodFillErase"}) =>
        \A r \in 1..hArgs.M :
            ReturnedGrid[r] = hArgs.pixels[r] => SameRowReference(r)

\* C24, the part on the input: neither fill writes to an array of the
\* input grid.
C24_FillKeepsInput ==
    (hPc = "done" /\ hOp.op \in {"floodFill", "floodFillErase"}) => InputArraysKept

\* ---- colour reduction end to end ----

BeadPositions(grid) ==
    { p \in (1..Len(grid)) \X (1..Len(grid[1])) : grid[p[1]][p[2]].isExternal # ExtTrue }

\* the distinct colours (hexes up to case) of the non-external cells
ColoursUsed(grid) == { UpperOf(grid[p[1]][p[2]].color) : p \in BeadPositions(grid) }

BeadsOf(grid, hex) ==
    Cardinality({ p \in BeadPositions(grid) : UpperOf(grid[p[1]][p[2]].color) = hex })

\* the working set the planner is left with for the grid and target
SurvivingColours(grid, target) ==
    PlanLoop(PlanStart(collectColorUsage(grid)), target).active

C26_NeverHalfBuilt ==
    cltPalette # NoPalette =>
        \A idx \in ModelBuckets :
            cltTable[idx] = findClosestIndex(ProbeOfIndex(idx), palettes[cltPalette])

\* C26, what holds: whenever no call is in progress the cached table is the
\* complete table of the cached palette, so every fast query that returns
\* has read a filled bucket.
C26_WholeBetweenCalls ==
    (bPc = "idle" /\ cltPalette # NoPalette) => cltTable = FilledTable(palettes[cltPalette])

\* ---- cell invariant ----

\* C27: from an empty grid or a grid made by calculatePixelGrid, after any
\* sequence of floodFill, floodFillErase, replaceColor, paintPixel,
\* paintCells and applyColorMerge with fill values built from a palette
\* entry (isExternal false) or equal to the transparent sentinel, every cell
\* whose external flag is true has key ERASE and colour #FFFFFF.
C27_ExternalIsSentinel ==
    \A r \in 1..Len(gGrid) : \A c \in 1..Len(gGrid[r]) :
        gGrid[r][c].isExternal = ExtTrue =>
            gGrid[r][c].key = "ERASE" /\ gGrid[r][c].color = HFFFFFF

\* C27 witness: after a colour merge a four-cell grid holds an external
\* cell, a cell as the sampler wrote it and a cell rewritten with the flag
\* false.
C27_Witness ==
    /\ gLast = "applyColorMerge"
    /\ Len(gGrid) * Len(gGrid[1]) = 4
    /\ \E p, q, e \in (1..Len(gGrid)) \X (1..Len(gGrid[1])) :
          /\ gGrid[p[1]][p[2]].isExternal = ExtUndefined
          /\ gGrid[q[1]][q[2]].isExternal = ExtFalse
          /\ gGrid[e[1]][e[2]].isExternal = ExtTrue

\* ---- statistics cache ----

\* the cells a recount counts, by position
BeadCellsOf(grid) ==
    { p \in { <<r, c>> : r \in 1..Len(grid), c \in 1..2 } :
        /\ p[2] <= Len(grid[p[1]])
        /\ grid[p[1]][p[2]].isExternal # ExtTrue
        /\ grid[p[1]][p[2]].key # "ERASE" }

RECURSIVE SumOfCounts(_)
SumOfCounts(stats) ==
    IF stats = <<>> THEN 0 ELSE Head(stats).count + SumOfCounts(Tail(stats))

\* stats is the recount of grid: one entry per upper-cased hex of a counted
\* cell, with the number of counted cells of that hex
IsRecountOf(stats, grid) ==
    /\ \A k \in 1..Len(stats) :
          stats[k].count =
              Cardinality({ p \in BeadCellsOf(grid) :
                              UpperOf(grid[p[1]][p[2]].color) = stats[k].hex })
    /\ \A p \in BeadCellsOf(grid) :
          \E k \in 1..Len(stats) : stats[k].hex = UpperOf(grid[p[1]][p[2]].color)
    /\ \A k, l \in 1..Len(stats) : stats[k].hex = stats[l].hex => k = l
    /\ \A k \in 1..Len(stats) : stats[k].count > 0
    /\ SumOfCounts(stats) = Cardinality(BeadCellsOf(grid))

\* C28: after any sequence of edits, colour merges, selection deletions,
\* initGrid, imports, undo, redo and project loads, getColorStats returns the
\* recount of the current grid over its non-external, non-ERASE cells
\* keyed by upper-cased hex, the counts summing to the number of such cells;
\* a cache entry for the current array is never stale; and a call with the
\* same array as the call before returns without counting.
C28_StatsCoherent ==
    /\ tLast = "getColorStats" => IsRecountOf(tReturned, tHeap[tStore.pixels])
    /\ (tCachedColorStats # <<>> /\ tCachedStatsPixelsRef = tStore.pixels)
          => IsRecountOf(tCachedColorStats[1], tHeap[tStore.pixels])
    /\ (tLast = "getColorStats" /\ tSameRef) => ~tRecounted

\* C28 witness: a call answered from the cache after an undo brought back
\* the array the statistics were computed for, two cells counted under one
\* upper-cased hex.
C28_Witness ==
    /\ tLast = "getColorStats"
    /\ ~tRecounted
    /\ tSameRef
    /\ tStore.future # <<>>
    /\ \E k \in 1..Len(tReturned) : tReturned[k].count = 2

\* C28 second witness: a call that counted because the array had changed
\* since the cached one.
C28_RecountWitness ==
    /\ tLast = "getColorStats"
    /\ tRecounted
    /\ ~tSameRef
    /\ tCachedStatsPixelsRef = tStore.pixels
    /\ tReturned # <<>>

\* ---- dirty tracking ----

\* C29: when a project field (pixels, gridDimensions, gridType, colorSystem,
\* maxColors, projectName, canvasMode, lockedColors) has changed since the
\* last save, load or new project, isDirty is true.
C29_EditMarksDirty == dUnsaved => dState.isDirty

\* what holds instead: isDirty is false in every state
C29_NeverDirty == ~dState.isDirty /\ ~dState.showUnsavedDialog /\ ~dOverflow

\* newProject and openProject never replace a project that has unsaved
\* changes
C29_NoSilentDiscard ==
    [][(dUnsaved /\ dLast' \in { "newProject", "openProject" })
          => dState'.project = dState.project]_vars

\* ---- transparent pixels under dithering ----

\* the pixel of the resized buffer for the cell (row y, column x), from 1
BufferPixel(y, x) == xArgs.img.data[(y - 1) * xArgs.img.width + x]

\* C30: in the grid that rePixelate or the import sets with Floyd-Steinberg
\* or Bayer dithering, every cell whose pixel of the resized buffer has
\* alpha below 128 is the transparent sentinel.
C30_TransparentStaysExternal ==
    xPc \in { "rePixelate", "import", "importCutout" } =>
        \A y \in 1..Len(xGrid) : \A x \in 1..Len(xGrid[y]) :
            BufferPixel(y, x).a < 128 => xGrid[y][x] = transparentPixel

\* what holds instead: without the cut-out pass such a cell is a bead of
\* the first palette entry, with it the sentinel
C30_TransparentIsFirstEntry ==
    xPc \in { "rePixelate", "import", "importCutout" } =>
        \A y \in 1..Len(xGrid) : \A x \in 1..Len(xGrid[y]) :
            BufferPixel(y, x).a < 128 =>
                xGrid[y][x] =
                    IF xPc = "importCutout" THEN transparentPixel
                    ELSE Cell(palettes[xArgs.palette][1].key, palettes[xArgs.palette][1].hex,
                              ExtFalse)

====
